---- MODULE Spec2Model ----
(***************************************************************************)
(* velocity-agent: the grounding validator (agent/grounding.py,            *)
(* agent/models.py) and the browser scraper (agent/scraper.py).            *)
(*                                                                         *)
(* Five specifications share the variables: Spec is one call of            *)
(* process_scraped_data, ScraperSpec one call of scrape_demo_data (the     *)
(* page answers each awaited probe with a value or an exception; opening   *)
(* and closing a page succeed), ScrapeCallsSpec successive calls of        *)
(* scrape_demo_data whose demo branch may raise, FunctionsSpec one call of *)
(* a pure function of the scraper (texts are sequences of characters,      *)
(* floats are exact fractions), ConcurrentSpec two validators at once.     *)
(* Each leaves the variables of the others at rest.                        *)
(*                                                                         *)
(* One call of GroundingValidator.process_scraped_data on a batch of       *)
(* scraped items.  The call is a coroutine: it runs synchronously between  *)
(* two awaits, so every action below is the code from one resumption (the  *)
(* answer of the backend to the pending POST) to the next await (the next  *)
(* POST being issued) or to the return.                                    *)
(*                                                                         *)
(* A scraped item is a Python dict; it is modelled as a function whose     *)
(* DOMAIN is the set of keys present, so `'price' in item` is              *)
(* "price" \in DOMAIN item.  Prices are in cents, sentiment scores in      *)
(* tenths, URLs are sequences of characters.                               *)
(***************************************************************************)
EXTENDS Integers, Sequences, FiniteSets, TLC

\* ------------------------------------------------------------------ bounds

\* Largest number of items of a batch.
MaxItems == 2

\* ------------------------------------------------------------------ URLs

UrlEmpty    == <<>>
UrlNoScheme == <<"a", "/", "p">>
UrlHttp     == <<"h", "t", "t", "p", ":", "/", "/", "a">>
UrlHttps    == <<"h", "t", "t", "p", "s", ":", "/", "/", "a", "/", "p">>

\* s starts with the characters of p
StartsWith(s, p) ==
    /\ Len(s) >= Len(p)
    /\ \A k \in 1..Len(p) : s[k] = p[k]

\* the part of s after its first n characters
Drop(s, n) == SubSeq(s, n + 1, Len(s))

\* the field typed str instead of HttpUrl: any string passes
HttpUrlValid_AnyString(u) == Len(u) >= 0

\* pydantic's HttpUrl: the scheme is http or https and a host follows "//"
HttpUrlValid(u) ==
    \E scheme \in {<<"h", "t", "t", "p">>, <<"h", "t", "t", "p", "s">>} :
        /\ StartsWith(u, scheme \o <<":", "/", "/">>)
        /\ LET rest == Drop(u, Len(scheme) + 3)
           IN  /\ Len(rest) > 0
               /\ rest[1] \notin {"/", ":"}

\* the serialised form of a validated HttpUrl (model_dump(mode='json')):
\* the URL in normal form, with the path "/" when the URL has none
HttpUrlDump(u) ==
    LET scheme == IF StartsWith(u, <<"h", "t", "t", "p", "s">>)
                  THEN <<"h", "t", "t", "p", "s">> ELSE <<"h", "t", "t", "p">>
        rest   == Drop(u, Len(scheme) + 3)
    IN  IF \E k \in 1..Len(rest) : rest[k] = "/" THEN u ELSE u \o <<"/">>

\* ------------------------------------------------------------------ items

\* An optional value: <<>> is "no value" (the key is absent, the call
\* returned None), <<v>> is the value v.
Name  == <<"Widget">>
Price == <<1>>
Score == <<10>>
PriceUrl     == <<UrlHttps>>
SentimentUrl == <<UrlHttp>>

PriceOpts == {<<>>, <<0>>}
ScoreOpts == {<<>>, <<11>>}
PriceUrlOpts     == {<<>>, <<UrlEmpty>>, <<UrlNoScheme>>}
SentimentUrlOpts == {<<>>, <<UrlNoScheme>>}

\* the dict with the keys whose option holds a value
MakeItem(name, price, source_url, score, sentiment_source_url) ==
    LET opt == [k \in {"name", "price", "source_url", "sentiment_score",
                       "sentiment_source_url"} |->
                   CASE k = "name" -> name
                     [] k = "price" -> price
                     [] k = "source_url" -> source_url
                     [] k = "sentiment_score" -> score
                     [] k = "sentiment_source_url" -> sentiment_source_url]
    IN  [k \in {j \in DOMAIN opt : opt[j] # <<>>} |-> opt[k][1]]

\* dict.get(key, default); DefaultNone is Python's None
DefaultNone == "None"
Get(item, key, default) == IF key \in DOMAIN item THEN item[key] ELSE default

\* ------------------------------------------------------------------ models

\* VerifiedPrice(...): the set of fields whose validation fails; the
\* constructor raises ValidationError iff the set is not empty.
\* price: Field(gt=0); source_url: HttpUrl, and validate_source (not empty).
VerifiedPriceErrors(product_id, price, source_url) ==
    (IF price > 0 THEN {} ELSE {"price"})
    \cup (IF HttpUrlValid(source_url) /\ Len(source_url) > 0
          THEN {} ELSE {"source_url"})

\* VerifiedSentiment(...): sentiment_score: Field(ge=-1.0, le=1.0)
VerifiedSentimentErrors(product_id, score, source_url) ==
    (IF score >= -10 /\ score <= 10 THEN {} ELSE {"sentiment_score"})
    \cup (IF HttpUrlValid(source_url) /\ Len(source_url) > 0
          THEN {} ELSE {"source_url"})

\* verified_price.model_dump(mode='json')
VerifiedPriceDump(product_id, price, currency, source_url) ==
    [product_id |-> product_id, price |-> price, currency |-> currency,
     source_url |-> HttpUrlDump(source_url)]

\* verified_sentiment.model_dump(mode='json'); raw_reviews is never passed
\* to the constructor and keeps its default None
VerifiedSentimentDump(product_id, score, text, source_url) ==
    [product_id |-> product_id, sentiment_score |-> score,
     sentiment_text |-> text, raw_reviews |-> DefaultNone,
     source_url |-> HttpUrlDump(source_url)]

\* AgentThought(thought, action, status); item is bookkeeping: the index of
\* the batch item the validator was working on
AgentThought(thought, action, status, item) ==
    [thought |-> thought, action |-> action, status |-> status, item |-> item]

\* the items a batch is drawn from
\* an item with every fact and both source URLs valid, the items that differ
\* from it in one field, and the empty dict
Items ==
    {MakeItem(Name, Price, PriceUrl, Score, SentimentUrl)}
    \cup {MakeItem(Name, p, PriceUrl, Score, SentimentUrl) : p \in PriceOpts}
    \cup {MakeItem(Name, Price, u, Score, SentimentUrl) : u \in PriceUrlOpts}
    \cup {MakeItem(Name, Price, PriceUrl, s, SentimentUrl) : s \in ScoreOpts}
    \cup {MakeItem(Name, Price, PriceUrl, Score, u) : u \in SentimentUrlOpts}
    \cup {MakeItem(<<>>, <<>>, <<>>, <<>>, <<>>)}

Batches == UNION { [1..n -> Items] : n \in 0..MaxItems }

\* ------------------------------------------------------------------ backend

\* What the backend does with a POST: the call raises (timeout, connection
\* refused), or it answers with a status and, for /api/products, a body
\* {data: {id: ...}} (id = <<>>: the body has no data.id).
Raises == [exc |-> TRUE, status |-> 0, id |-> <<>>]
Answer(status, id) == [exc |-> FALSE, status |-> status, id |-> id]

CreateResponses ==
    {Raises, Answer(201, <<7>>), Answer(201, <<0>>), Answer(201, <<>>),
     Answer(200, <<7>>), Answer(500, <<>>)}
SaveResponses == {Raises, Answer(201, <<>>), Answer(200, <<>>), Answer(500, <<>>)}
LogResponses  == {Raises, Answer(201, <<>>)}

\* the answers the backend may give to the POST awaited at pc; the answer
\* to a log POST is ignored by the code and is drawn when it is handled
Replies(at) ==
    CASE at = "await_create"    -> {<<r>> : r \in CreateResponses}
      [] at = "await_price"     -> {<<r>> : r \in SaveResponses}
      [] at = "await_sentiment" -> {<<r>> : r \in SaveResponses}
      [] OTHER                  -> {<<>>}

\* ------------------------------------------------------------------ state

VARIABLES
    batch,       \* scraped_items, the argument of the call
    pc,          \* where the coroutine is suspended
    idx,         \* the index in batch of the item of the for loop
    product_id,  \* the local product_id of the current item
    results,     \* the accumulator returned by the call
    thoughts,    \* self.thoughts
    calls,       \* every POST of a product, a price or a sentiment issued, in
                 \* order: endpoint, item, body
    sent,        \* _send_agent_logs: the number of log POSTs it has issued
    log_post,    \* _send_agent_logs: <<the body of the log POST in flight>>
    returned,    \* <<>> while the call runs, then <<its return value>>
    reply,       \* the message in flight: <<the backend's answer to the POST
                 \* the coroutine awaits>>, <<>> when it awaits none
    acks         \* the backend's side: per endpoint, the items whose POST it
                 \* answered with 201 (for /api/products: and a body with an id)

validator_vars ==
    <<batch, pc, idx, product_id, results, thoughts, calls, sent, log_post,
      returned, reply, acks>>

\* One call of BrowserScraper.scrape_demo_data (agent/scraper.py)
VARIABLES
    target,      \* the argument of scrape_demo_data
    scrape_pc,   \* where the coroutine is suspended
    pages,       \* the page handles opened so far: for each, whether it is
                 \* open and which function opened it
    selector,    \* the index of the selector of the for loop of an extractor
    locals,      \* the locals of scrape_demo_data, of scrape_live_site and of
                 \* its extractors
    probe,       \* what the page answered to the last probe (navigation,
                 \* query_selector and inner_text, content)
    fallback,    \* why the call left live mode for demo mode, "" if it did not
    scraped      \* <<>> while the call runs, then <<its return value>>

scraper_vars ==
    <<target, scrape_pc, pages, selector, locals, probe, fallback, scraped>>

\* One call of a pure function of agent/scraper.py
VARIABLES
    fn_input,    \* the function called and its argument
    fn_output    \* <<>> before the call, then <<the value returned>>

function_vars == <<fn_input, fn_output>>

\* Two scrape requests in flight, each with the GroundingValidator it
\* constructed (main.py, lines 101-102)
VARIABLES
    validators,  \* per request: thoughts is the list object self.thoughts
                 \* refers to, frame the frame of process_scraped_data
    lists,       \* the list objects: for each, its elements
    alone        \* per request: the frame of the same call run alone against
                 \* the same answers of the backend

concurrent_vars == <<validators, lists, alone>>

vars == <<validator_vars, scraper_vars, function_vars, concurrent_vars>>

\* A frame is the argument and the mutable state of the call; the operators
\* below are the synchronous stretches of code, from a frame to the frame at
\* the next await.
Frame ==
    [batch |-> batch, pc |-> pc, idx |-> idx, product_id |-> product_id, results |-> results,
     thoughts |-> thoughts, calls |-> calls, sent |-> sent, log_post |-> log_post,
     returned |-> returned, acks |-> acks]

Install(f) ==
    /\ pc' = f.pc
    /\ idx' = f.idx
    /\ product_id' = f.product_id
    /\ results' = f.results
    /\ thoughts' = f.thoughts
    /\ calls' = f.calls
    /\ sent' = f.sent
    /\ log_post' = f.log_post
    /\ returned' = f.returned
    /\ reply' \in Replies(f.pc)
    /\ acks' = f.acks
    /\ UNCHANGED batch
    /\ UNCHANGED <<scraper_vars, function_vars, concurrent_vars>>

\* client.post(...): the POST is issued and the coroutine awaits the answer
Post(f, endpoint, item, body, at) ==
    [f EXCEPT !.calls = Append(@, [endpoint |-> endpoint, item |-> item,
                                   body |-> body]),
              !.pc = at]

\* the backend accepted the POST (section 6 of the spec: 201, and for
\* /api/products a body {data: {id: int}})
Accepted(endpoint, r) ==
    /\ ~r.exc
    /\ r.status = 201
    /\ endpoint = "products" => r.id # <<>>

\* the answer r of the backend to the pending POST (the last one issued)
Answered(f, r) ==
    LET call == f.calls[Len(f.calls)]
    IN  [f EXCEPT !.acks[call.endpoint] =
                      IF Accepted(call.endpoint, r) THEN @ \cup {call.item} ELSE @]


\* insert(0, ...) instead of append
log_thought_Prepend(f, thought, action, status) ==
    [f EXCEPT !.thoughts = <<AgentThought(thought, action, status, f.idx)>> \o @]

\* self.log_thought(thought, action, status)
log_thought(f, thought, action, status) ==
    [f EXCEPT !.thoughts = Append(@, AgentThought(thought, action, status, f.idx))]

\* results['errors'] = [msg]: the list is replaced, not appended to
AppendError_Replace(f, msg) ==
    [f EXCEPT !.results.errors =
                  <<[msg |-> msg, item |-> f.idx, at |-> Len(f.thoughts)]>>]

\* results['errors'].append(msg); item and at are bookkeeping: the item the
\* validator was working on, and the number of thoughts logged before the
\* append
AppendError(f, msg) ==
    [f EXCEPT !.results.errors =
                  Append(@, [msg |-> msg, item |-> f.idx, at |-> Len(f.thoughts)])]

\* ------------------------------------------------------------------ the call

\* _send_agent_logs is over (its locals are gone); return results (line 120)
Return(f) ==
    [f EXCEPT !.pc = "done", !.returned = <<f.results>>, !.sent = 0,
              !.log_post = <<>>]

\* client.post(.../api/agent/log, json=body) in _send_agent_logs
PostLog(f, body) ==
    [f EXCEPT !.sent = @ + 1, !.log_post = <<body>>, !.pc = "await_log"]

\* the body of the POST /api/agent/log for one thought (lines 179-183)
LogBody(thought) ==
    [action |-> thought.action, status |-> thought.status,
     details |-> thought.thought]

\* the body of the summary log (lines 189-193)
SummaryBody(res) ==
    [action |-> "Scraping Complete",
     status |-> IF res.errors = <<>> THEN "success" ELSE "warning",
     details |-> <<"Created", res.products_created, res.prices_added,
                   res.sentiments_added>>]

\* the except clause of _send_agent_logs appends the exception to
\* results['errors'] instead of printing it
FlushFailed_Recorded(f) == Return(AppendError(f, <<"Error sending agent logs">>))

\* a log POST raised: the except clause of _send_agent_logs prints the
\* exception (lines 195-196), the flush is over and line 120 returns
FlushFailed(f) == Return(f)

\* _send_agent_logs that walks self.thoughts from its end
SendNextLog_Reversed(f) ==
    IF f.sent < Len(f.thoughts)
    THEN PostLog(f, LogBody(f.thoughts[Len(f.thoughts) - f.sent]))
    ELSE IF f.sent = Len(f.thoughts)
    THEN PostLog(f, SummaryBody(f.results))
    ELSE Return(f)

\* _send_agent_logs, from its start or from the answer to a log POST to the
\* next log POST: one POST per thought, in the order of self.thoughts, then
\* the summary; after the summary the call returns.
SendNextLog(f) ==
    IF f.sent < Len(f.thoughts)
    THEN PostLog(f, LogBody(f.thoughts[f.sent + 1]))
    ELSE IF f.sent = Len(f.thoughts)
    THEN PostLog(f, SummaryBody(f.results))
    ELSE Return(f)

\* the head of the loop body for item i (lines 46-53), up to the POST of
\* _create_product (lines 125-135)
BeginItem(f, i) ==
    LET item == f.batch[i]
        g    == log_thought([f EXCEPT !.idx = i],
                            <<"Processing product", Get(item, "name", "Unknown")>>,
                            "Data Validation", "running")
    IN  Post(g, "products", i,
             [name |-> Get(item, "name", "Unknown Product"),
              category |-> Get(item, "category", DefaultNone),
              competitor |-> Get(item, "competitor", DefaultNone),
              insight |-> Get(item, "insight", "")],
             "await_create")

\* the end of the loop body: the next item, or after the last one
\* _send_agent_logs (line 118)
NextItem(f) ==
    IF f.idx < Len(f.batch) THEN BeginItem(f, f.idx + 1) ELSE SendNextLog(f)

\* Step 3 whose except clause records nothing (no errors.append, no
\* log_thought at lines 107-110)
SentimentStep_SilentFailure(f) ==
    LET item == f.batch[f.idx]
    IN  IF "sentiment_score" \in DOMAIN item /\ "sentiment_source_url" \in DOMAIN item
        THEN LET errs == VerifiedSentimentErrors(f.product_id, item["sentiment_score"],
                                                 item["sentiment_source_url"])
             IN  IF errs = {}
                 THEN Post(f, "sentiment", f.idx,
                           VerifiedSentimentDump(f.product_id, item["sentiment_score"],
                                                 Get(item, "sentiment_text", ""),
                                                 item["sentiment_source_url"]),
                           "await_sentiment")
                 ELSE NextItem(f)
        ELSE NextItem(f)

\* Step 3 (lines 90-110), up to the POST of _save_sentiment
SentimentStep(f) ==
    LET item == f.batch[f.idx]
    IN  IF "sentiment_score" \in DOMAIN item /\ "sentiment_source_url" \in DOMAIN item
        THEN LET errs == VerifiedSentimentErrors(f.product_id, item["sentiment_score"],
                                                 item["sentiment_source_url"])
             IN  IF errs = {}
                 THEN Post(f, "sentiment", f.idx,
                           VerifiedSentimentDump(f.product_id, item["sentiment_score"],
                                                 Get(item, "sentiment_text", ""),
                                                 item["sentiment_source_url"]),
                           "await_sentiment")
                 ELSE NextItem(log_thought(
                          AppendError(f, <<"Sentiment validation failed", errs>>),
                          <<"Sentiment validation failed", errs>>,
                          "Sentiment Validation", "error"))
        ELSE NextItem(f)

\* Step 2 without its own try: the ValidationError reaches the handler of
\* the item (lines 112-115) and Step 3 is not run
PriceStep_NoInnerTry(f) ==
    LET item == f.batch[f.idx]
    IN  IF "price" \in DOMAIN item /\ "source_url" \in DOMAIN item
        THEN LET errs == VerifiedPriceErrors(f.product_id, item["price"],
                                             item["source_url"])
             IN  IF errs = {}
                 THEN Post(f, "prices", f.idx,
                           VerifiedPriceDump(f.product_id, item["price"],
                                             Get(item, "currency", "USD"),
                                             item["source_url"]),
                           "await_price")
                 ELSE NextItem(log_thought(
                          AppendError(f, <<"Error processing item", errs>>),
                          <<"Error processing item", errs>>,
                          "Item Processing", "error"))
        ELSE SentimentStep(f)

\* Step 2 guarded by `or` instead of `and`: an item with one of the two
\* inputs is attempted, and the missing key raises in the try
PriceStep_EitherInput(f) ==
    LET item == f.batch[f.idx]
        errs == IF "price" \in DOMAIN item /\ "source_url" \in DOMAIN item
                THEN VerifiedPriceErrors(f.product_id, item["price"],
                                         item["source_url"])
                ELSE {"KeyError"}
    IN  IF "price" \in DOMAIN item \/ "source_url" \in DOMAIN item
        THEN IF errs = {}
             THEN Post(f, "prices", f.idx,
                       VerifiedPriceDump(f.product_id, item["price"],
                                         Get(item, "currency", "USD"),
                                         item["source_url"]),
                       "await_price")
             ELSE SentimentStep(log_thought(
                      AppendError(f, <<"Price validation failed", errs>>),
                      <<"Price validation failed", errs>>,
                      "Price Validation", "error"))
        ELSE SentimentStep(f)

\* Step 2 (lines 67-87), up to the POST of _save_price
PriceStep(f) ==
    LET item == f.batch[f.idx]
    IN  IF "price" \in DOMAIN item /\ "source_url" \in DOMAIN item
        THEN LET errs == VerifiedPriceErrors(f.product_id, item["price"],
                                             item["source_url"])
             IN  IF errs = {}
                 THEN Post(f, "prices", f.idx,
                           VerifiedPriceDump(f.product_id, item["price"],
                                             Get(item, "currency", "USD"),
                                             item["source_url"]),
                           "await_price")
                 ELSE SentimentStep(log_thought(
                          AppendError(f, <<"Price validation failed", errs>>),
                          <<"Price validation failed", errs>>,
                          "Price Validation", "error"))
        ELSE SentimentStep(f)

\* _create_product (lines 137-146): the value it returns for an answer of
\* the backend, <<>> for None
CreateProductResult(resp) ==
    IF resp.exc THEN <<>>
    ELSE IF resp.status = 201 THEN resp.id
    ELSE <<>>

\* Python's truth value of an optional integer: None and 0 are false
Truthy(v) == v # <<>> /\ v[1] # 0

\* break instead of continue when the product is not created
AfterCreate_Break(f, ret) ==
    IF ~Truthy(ret)
    THEN LET name == Get(f.batch[f.idx], "name", DefaultNone)
         IN  SendNextLog(AppendError(
                 log_thought(f, <<"Failed to create product", name>>,
                             "Product Creation", "error"),
                 <<"Failed to create product", name>>))
    ELSE PriceStep([f EXCEPT !.product_id = ret[1],
                             !.results.products_created = @ + 1])

\* no continue when the product is not created: Step 2 and Step 3 run
AfterCreate_NoContinue(f, ret) ==
    IF ~Truthy(ret)
    THEN LET name == Get(f.batch[f.idx], "name", DefaultNone)
         IN  PriceStep(AppendError(
                 log_thought(f, <<"Failed to create product", name>>,
                             "Product Creation", "error"),
                 <<"Failed to create product", name>>))
    ELSE PriceStep([f EXCEPT !.product_id = ret[1],
                             !.results.products_created = @ + 1])

\* lines 53-64 after _create_product returned, then Step 2
AfterCreate(f, ret) ==
    IF ~Truthy(ret)
    THEN LET name == Get(f.batch[f.idx], "name", DefaultNone)
         IN  NextItem(AppendError(
                 log_thought(f, <<"Failed to create product", name>>,
                             "Product Creation", "error"),
                 <<"Failed to create product", name>>))
    ELSE PriceStep([f EXCEPT !.product_id = ret[1],
                             !.results.products_created = @ + 1])

\* _save_price (lines 150-158): the value it returns
SavePriceResult(resp) == ~resp.exc /\ resp.status = 201

\* lines 77-83 after _save_price returned, then Step 3
AfterSavePrice(f, success) ==
    LET item == f.batch[f.idx]
    IN  IF success
        THEN SentimentStep(log_thought(
                 [f EXCEPT !.results.prices_added = @ + 1],
                 <<"[OK] Verified price", item["price"], item["source_url"]>>,
                 "Price Verification", "success"))
        ELSE SentimentStep(f)

\* _save_sentiment (lines 162-170): the value it returns
SaveSentimentResult(resp) == ~resp.exc /\ resp.status = 201

\* lines 100-106 after _save_sentiment returned, then the next item
AfterSaveSentiment(f, success) ==
    LET item == f.batch[f.idx]
    IN  IF success
        THEN NextItem(log_thought(
                 [f EXCEPT !.results.sentiments_added = @ + 1],
                 <<"[OK] Verified sentiment", item["sentiment_score"],
                   item["sentiment_source_url"]>>,
                 "Sentiment Verification", "success"))
        ELSE NextItem(f)

\* ------------------------------------------------------------------ actions

\* the validator before process_scraped_data(b) is called
ValidatorInit(b) ==
    /\ batch = b
    /\ pc = "start"
    /\ idx = 0
    /\ product_id = 0
    /\ results = [products_created |-> 0, prices_added |-> 0,
                  sentiments_added |-> 0, errors |-> <<>>]
    /\ thoughts = <<>>
    /\ calls = <<>>
    /\ sent = 0
    /\ log_post = <<>>
    /\ returned = <<>>
    /\ reply = <<>>
    /\ acks = [products |-> {}, prices |-> {}, sentiment |-> {}]

\* no scrape_demo_data call is made
ScraperIdle ==
    /\ target = <<>>
    /\ scrape_pc = "idle"
    /\ pages = <<>>
    /\ selector = 0
    /\ locals = <<>>
    /\ probe = <<>>
    /\ fallback = ""
    /\ scraped = <<>>

\* no pure function is called
FunctionsIdle == fn_input = <<>> /\ fn_output = <<>>

\* no concurrent requests are made
ConcurrentIdle == validators = <<>> /\ lists = <<>> /\ alone = <<>>

Init ==
    /\ \E b \in Batches : ValidatorInit(b)
    /\ ScraperIdle
    /\ FunctionsIdle
    /\ ConcurrentIdle

\* process_scraped_data(scraped_items) is called: lines 36-53, or with an
\* empty batch lines 36-43 and 118
Call ==
    /\ pc = "start"
    /\ Install(NextItem(Frame))

\* the backend answers the POST /api/products
CreateProductResponse ==
    /\ pc = "await_create"
    /\ Install(AfterCreate(Answered(Frame, reply[1]), CreateProductResult(reply[1])))

\* the backend answers the POST /api/products/{id}/prices
SavePriceResponse ==
    /\ pc = "await_price"
    /\ Install(AfterSavePrice(Answered(Frame, reply[1]), SavePriceResult(reply[1])))

\* the backend answers the POST /api/sentiment
SaveSentimentResponse ==
    /\ pc = "await_sentiment"
    /\ Install(AfterSaveSentiment(Answered(Frame, reply[1]),
                                  SaveSentimentResult(reply[1])))

\* the backend answers a POST /api/agent/log: the answer is ignored, an
\* exception ends the flush (lines 195-196); then line 120
AgentLogResponse ==
    /\ pc = "await_log"
    /\ \E r \in LogResponses :
           Install(IF r.exc THEN FlushFailed(Frame) ELSE SendNextLog(Frame))

Next ==
    \/ Call
    \/ CreateProductResponse
    \/ SavePriceResponse
    \/ SaveSentimentResponse
    \/ AgentLogResponse

Spec == Init /\ [][Next]_vars

\* ------------------------------------------------------------------ strings

\* Texts are sequences of characters.

Digits == {"0", "1", "2", "3", "4", "5", "6", "7", "8", "9"}
DigitValue(c) ==
    CASE c = "0" -> 0 [] c = "1" -> 1 [] c = "2" -> 2 [] c = "3" -> 3
      [] c = "4" -> 4 [] c = "5" -> 5 [] c = "6" -> 6 [] c = "7" -> 7
      [] c = "8" -> 8 [] c = "9" -> 9

UpperCase == <<"A", "B", "C", "D", "E", "F", "G", "H", "I", "J", "K", "L", "M",
               "N", "O", "P", "Q", "R", "S", "T", "U", "V", "W", "X", "Y", "Z">>
LowerCase == <<"a", "b", "c", "d", "e", "f", "g", "h", "i", "j", "k", "l", "m",
               "n", "o", "p", "q", "r", "s", "t", "u", "v", "w", "x", "y", "z">>

\* str.lower()
LowerOf == [c \in {UpperCase[k] : k \in 1..26} |->
               LowerCase[CHOOSE k \in 1..26 : UpperCase[k] = c]]
LowerChar(c) == IF c \in DOMAIN LowerOf THEN LowerOf[c] ELSE c
Lower(s) == <<>> \o [k \in 1..Len(s) |-> LowerChar(s[k])]

\* word in text
Contains(text, word) ==
    \E k \in 1..(Len(text) - Len(word) + 1) :
        text[k] = word[1] /\ SubSeq(text, k, k + Len(word) - 1) = word

\* str.replace(old, new) for one character old; new is a string
RECURSIVE Replace(_, _, _)
Replace(s, old, new) ==
    IF s = <<>> THEN <<>>
    ELSE (IF Head(s) = old THEN new ELSE <<Head(s)>>) \o Replace(Tail(s), old, new)

\* str.strip(): without the leading and trailing whitespace
Whitespace == {" ", "\n", "\t"}
RECURSIVE StripStart(_, _)
StripStart(s, k) ==
    IF k <= Len(s) /\ s[k] \in Whitespace THEN StripStart(s, k + 1) ELSE k
RECURSIVE StripEnd(_, _)
StripEnd(s, k) ==
    IF k >= 1 /\ s[k] \in Whitespace THEN StripEnd(s, k - 1) ELSE k
Strip(s) == SubSeq(s, StripStart(s, 1), StripEnd(s, Len(s)))

\* the slice left out: s whole
Truncate_Whole(s, n) == s

\* s[:n]
Truncate(s, n) == IF Len(s) <= n THEN s ELSE SubSeq(s, 1, n)

\* the words joined by one space
RECURSIVE Join(_)
Join(words) ==
    IF words = <<>> THEN <<>>
    ELSE IF Len(words) = 1 THEN words[1]
    ELSE words[1] \o <<" ">> \o Join(Tail(words))

\* ------------------------------------------------------------------ numbers

\* A float is modelled by an exact fraction num / den with den > 0.
Fraction(num, den) == [num |-> num, den |-> den]
FracAdd(a, b) == Fraction(a.num * b.den + b.num * a.den, a.den * b.den)
FracEq(a, b) == a.num * b.den = b.num * a.den
FracLeq(a, b) == a.num * b.den <= b.num * a.den

\* sum(scores)
RECURSIVE FracSum(_)
FracSum(scores) ==
    IF scores = <<>> THEN Fraction(0, 1)
    ELSE FracAdd(Head(scores), FracSum(Tail(scores)))

\* the number written by a string of digits
RECURSIVE DigitsValue(_)
DigitsValue(s) ==
    IF s = <<>> THEN 0
    ELSE 10 * DigitsValue(SubSeq(s, 1, Len(s) - 1)) + DigitValue(s[Len(s)])

RECURSIVE Pow10(_)
Pow10(n) == IF n = 0 THEN 1 ELSE 10 * Pow10(n - 1)

\* ------------------------------------------------------------------ scraper.py: sentiment

positive_words ==
    <<<<"g", "r", "e", "a", "t">>,
      <<"e", "x", "c", "e", "l", "l", "e", "n", "t">>,
      <<"a", "m", "a", "z", "i", "n", "g">>,
      <<"l", "o", "v", "e">>,
      <<"p", "e", "r", "f", "e", "c", "t">>,
      <<"r", "e", "c", "o", "m", "m", "e", "n", "d">>,
      <<"b", "e", "s", "t">>>>
negative_words ==
    <<<<"b", "a", "d">>,
      <<"t", "e", "r", "r", "i", "b", "l", "e">>,
      <<"p", "o", "o", "r">>,
      <<"w", "o", "r", "s", "t">>,
      <<"d", "i", "s", "a", "p", "p", "o", "i", "n", "t", "i", "n", "g">>,
      <<"w", "a", "s", "t", "e">>,
      <<"a", "w", "f", "u", "l">>>>

\* the lexicon terms that occur in the text (sum(1 for word in words if word
\* in text_lower), lines 405-406)
TermsPresent(words, text_lower) ==
    Cardinality({k \in 1..Len(words) : Contains(text_lower, words[k])})

\* the difference of the counts, not divided by their sum
_estimate_sentiment_Unscaled(text) ==
    LET text_lower     == Lower(text)
        positive_count == TermsPresent(positive_words, text_lower)
        negative_count == TermsPresent(negative_words, text_lower)
    IN  Fraction(positive_count - negative_count, 1)

\* BrowserScraper._estimate_sentiment (lines 395-413)
_estimate_sentiment(text) ==
    LET text_lower     == Lower(text)
        positive_count == TermsPresent(positive_words, text_lower)
        negative_count == TermsPresent(negative_words, text_lower)
        total          == positive_count + negative_count
    IN  IF total = 0 THEN Fraction(0, 1)
        ELSE Fraction(positive_count - negative_count, total)

\* sum(scores) returned as it is, not divided by len(scores)
_calculate_sentiment_from_reviews_Sum(reviews) ==
    FracSum([k \in 1..Len(reviews) |-> _estimate_sentiment(reviews[k])])

\* BrowserScraper._calculate_sentiment_from_reviews (lines 373-382)
_calculate_sentiment_from_reviews(reviews) ==
    IF reviews = <<>> THEN Fraction(0, 1)
    ELSE LET scores == [k \in 1..Len(reviews) |-> _estimate_sentiment(reviews[k])]
             total  == FracSum(scores)
         IN  Fraction(total.num, total.den * Len(scores))

\* ------------------------------------------------------------------ scraper.py: price parser

\* the end of the match of [\d,]+\.?\d* that starts at position k of s (s has
\* no comma): the digits, a point if one follows, the digits after it
RECURSIVE DigitRunEnd(_, _)
DigitRunEnd(s, k) ==
    IF k + 1 <= Len(s) /\ s[k + 1] \in Digits THEN DigitRunEnd(s, k + 1) ELSE k
NumberEnd(s, k) ==
    LET e == DigitRunEnd(s, k)
    IN  IF e + 1 <= Len(s) /\ s[e + 1] = "."
        THEN (IF e + 2 <= Len(s) /\ s[e + 2] \in Digits
              THEN DigitRunEnd(s, e + 2) ELSE e + 1)
        ELSE e

\* float(m) for a match m of the pattern
FloatOf(m) ==
    LET points == {k \in 1..Len(m) : m[k] = "."}
        p      == IF points = {} THEN Len(m) + 1 ELSE CHOOSE k \in points : TRUE
        whole  == SubSeq(m, 1, p - 1)
        frac   == SubSeq(m, p + 1, Len(m))
    IN  Fraction(DigitsValue(whole \o frac), Pow10(Len(frac)))

\* the pattern applied to the text as given, its commas left in place: the
\* match ends at the first comma
_extract_price_NoStrip(price_text) ==
    LET s      == price_text
        starts == {k \in 1..Len(s) : s[k] \in Digits}
    IN  IF starts = {} THEN <<>>
        ELSE LET k == CHOOSE j \in starts : \A i \in starts : j <= i
             IN  <<FloatOf(SubSeq(s, k, NumberEnd(s, k)))>>

\* BrowserScraper._extract_price (lines 384-393): <<>> is None
_extract_price(price_text) ==
    LET s      == Replace(price_text, ",", <<>>)
        starts == {k \in 1..Len(s) : s[k] \in Digits}
    IN  IF starts = {} THEN <<>>
        ELSE LET k == CHOOSE j \in starts : \A i \in starts : j <= i
             IN  <<FloatOf(SubSeq(s, k, NumberEnd(s, k)))>>

\* ------------------------------------------------------------------ calls of the pure functions

\* Largest number of words of a text given to _estimate_sentiment.
MaxWords == 3
\* Largest number of reviews given to _calculate_sentiment_from_reviews.
MaxReviews == 3
\* Largest length of a generated text given to _extract_price.
MaxPriceLen == 3

\* the words the texts are made of: two positive terms (one capitalised),
\* two negative terms and a word of neither lexicon
Words ==
    {<<"g", "r", "e", "a", "t">>,
     <<"E", "x", "c", "e", "l", "l", "e", "n", "t">>,
     <<"b", "a", "d">>,
     <<"w", "o", "r", "s", "t">>,
     <<"o", "k">>}
Texts == {Join(w) : w \in UNION {[1..n -> Words] : n \in 0..MaxWords}}

ReviewSamples ==
    {<<"T", "h", "i", "s", " ", "i", "s", " ", "g", "r", "e", "a", "t", " ", "a", "n", "d", " ", "e", "x", "c", "e", "l", "l", "e", "n", "t">>,
     <<"T", "h", "i", "s", " ", "i", "s", " ", "t", "e", "r", "r", "i", "b", "l", "e", " ", "a", "n", "d", " ", "b", "a", "d">>,
     <<"g", "r", "e", "a", "t", " ", "g", "r", "e", "a", "t", " ", "b", "a", "d">>,
     <<"o", "k">>}
ReviewLists == UNION {[1..n -> ReviewSamples] : n \in 0..MaxReviews}

PriceAlphabet == {"$", "0", "1", ",", ".", " "}
PriceExamples ==
    {<<"$", "7", "9", ".", "9", "9", " ", "(", "w", "a", "s", " ", "$", "9", "9", ".", "9", "9", ")">>,
     <<"1", ",", "2", "9", "9", ".", "0", "0">>,
     <<"F", "r", "e", "e">>}
PriceTexts ==
    PriceExamples \cup UNION {[1..n -> PriceAlphabet] : n \in 0..MaxPriceLen}

FunctionInputs ==
    [fn : {"_estimate_sentiment"}, arg : Texts]
    \cup [fn : {"_calculate_sentiment_from_reviews"}, arg : ReviewLists]
    \cup [fn : {"_extract_price"}, arg : PriceTexts]

\* self._estimate_sentiment(text)
EstimateSentiment ==
    /\ fn_output = <<>>
    /\ fn_input.fn = "_estimate_sentiment"
    /\ fn_output' = <<_estimate_sentiment(fn_input.arg)>>
    /\ UNCHANGED <<fn_input, validator_vars, scraper_vars, concurrent_vars>>

\* self._calculate_sentiment_from_reviews(reviews)
CalculateSentiment ==
    /\ fn_output = <<>>
    /\ fn_input.fn = "_calculate_sentiment_from_reviews"
    /\ fn_output' = <<_calculate_sentiment_from_reviews(fn_input.arg)>>
    /\ UNCHANGED <<fn_input, validator_vars, scraper_vars, concurrent_vars>>

\* self._extract_price(price_text)
ExtractPrice ==
    /\ fn_output = <<>>
    /\ fn_input.fn = "_extract_price"
    /\ fn_output' = <<_extract_price(fn_input.arg)>>
    /\ UNCHANGED <<fn_input, validator_vars, scraper_vars, concurrent_vars>>

FunctionsInit ==
    /\ fn_input \in FunctionInputs
    /\ fn_output = <<>>
    /\ ValidatorInit(<<>>)
    /\ ScraperIdle
    /\ ConcurrentIdle

FunctionsNext ==
    \/ EstimateSentiment
    \/ CalculateSentiment
    \/ ExtractPrice

FunctionsSpec == FunctionsInit /\ [][FunctionsNext]_vars

\* ------------------------------------------------------------------ scraper.py: the scrape call

\* Largest number of elements query_selector_all returns for one selector.
MaxElements == 3

\* the targets: 'default', a symbolic name, two URLs that select live mode
\* and a URL of another scheme
TargetDefault == <<"d", "e", "f", "a", "u", "l", "t">>
Targets ==
    {TargetDefault,
     <<"w", "i", "d", "g", "e", "t", "s">>,
     <<"h", "t", "t", "p", ":", "/", "/", "a">>,
     <<"h", "t", "t", "p", "s", ":", "/", "/", "a", "/", "p">>,
     <<"f", "t", "p", ":", "/", "/", "a">>}

\* any target with a scheme separator is taken for a URL
IsLiveTarget_AnyScheme(t) ==
    \E k \in 1..(Len(t) - 2) : SubSeq(t, k, k + 2) = <<":", "/", "/">>

\* target.startswith('http://') or target.startswith('https://') (line 68)
IsLiveTarget(t) ==
    \/ StartsWith(t, <<"h", "t", "t", "p", ":", "/", "/">>)
    \/ StartsWith(t, <<"h", "t", "t", "p", "s", ":", "/", "/">>)

\* urlparse(url).netloc for a URL scheme://netloc[/path]
Netloc(url) ==
    LET k    == CHOOSE j \in 1..Len(url) : url[j] = ":"
        rest == Drop(url, k + 2)
        ends == {j \in 1..Len(rest) : rest[j] = "/"}
    IN  IF ends = {} THEN rest
        ELSE SubSeq(rest, 1, (CHOOSE j \in ends : \A i \in ends : j <= i) - 1)

\* the numbers of selectors of the three extractors (lines 275-281, 300-310,
\* 343-350)
NameSelectors   == 5
PriceSelectors  == 9
ReviewSelectors == 6

\* n characters that are neither whitespace nor part of a lexicon term
Fill(n) == [k \in 1..n |-> "x"]

\* what the page answers to a probe: kind is "ok", "raises", "none" (no
\* element matches), "text" (inner_text), "elements" (their number) or
\* "content" (the text nodes of the document)
Answered0(kind) == [kind |-> kind, value |-> <<>>]
AnsweredWith(kind, value) == [kind |-> kind, value |-> value]
NoProbe == Answered0("")

NameTexts ==
    {<<>>,
     <<" ", "\n">>,
     <<" ", "H", "u", "b", " ", "P", "r", "o", " ">>,
     Fill(101)}
PriceProbeTexts ==
    {<<"F", "r", "e", "e">>,
     <<"$", "0", ".", "0", "0">>,
     <<"$", "7", "9", ".", "9", "9", " ", "(", "w", "a", "s", " ", "$", "9", "9", ".", "9", "9", ")">>,
     <<"1", ",", "2", "9", "9", ".", "0", "0">>}
Documents ==
    {<<<<"F", "r", "e", "e">>>>,
     <<<<"F", "r", "e", "e">>, <<"$", "0", ".", "0", "0">>, <<"$", "5">>>>,
     <<<<"2", " ", "f", "o", "r", " ", "$", "1", "0">>>>,
     <<<<"$", ",">>>>}
ReviewTexts ==
    {<<>>,
     <<"b", "a", "d">> \o Fill(16),
     <<"g", "r", "e", "a", "t">> \o Fill(15),
     <<" ">> \o <<"E", "x", "c", "e", "l", "l", "e", "n", "t">> \o Fill(12) \o <<"\n">>,
     <<"w", "o", "r", "s", "t">> \o Fill(496)}

GotoAnswers    == {Answered0("ok"), Answered0("raises")}
NameAnswers    ==
    {Answered0("none"), Answered0("raises")}
    \cup {AnsweredWith("text", t) : t \in NameTexts}
PriceAnswers   ==
    {Answered0("none"), Answered0("raises")}
    \cup {AnsweredWith("text", t) : t \in PriceProbeTexts}
ContentAnswers ==
    {Answered0("raises")} \cup {AnsweredWith("content", d) : d \in Documents}
ReviewsAnswers ==
    {Answered0("raises")} \cup {AnsweredWith("elements", n) : n \in 0..MaxElements}
ReviewTextAnswers ==
    {Answered0("raises")} \cup {AnsweredWith("text", t) : t \in ReviewTexts}

\* the first entries of product_pool (lines 86-203; the source has 35)
product_pool ==
    <<[name |-> <<"U", "l", "t", "r", "a", "S", "o", "u", "n", "d", " ", "P", "r", "o", " ", "H", "e", "a", "d", "p", "h", "o", "n", "e", "s">>,
      category |-> "Electronics", competitor |-> "AudioTech",
      price |-> Fraction(14999, 100), sentiment_score |-> Fraction(85, 100),
      sentiment_text |-> "Excellent sound quality and comfortable fit",
      insight |-> "Strong customer satisfaction. Premium pricing justified by quality. Recommend highlighting noise cancellation in marketing."],
     [name |-> <<"S", "m", "a", "r", "t", "H", "o", "m", "e", " ", "H", "u", "b", " ", "P", "r", "o">>,
      category |-> "Electronics", competitor |-> "HomeTech",
      price |-> Fraction(8999, 100), sentiment_score |-> Fraction(78, 100),
      sentiment_text |-> "Easy setup, works with most devices",
      insight |-> "Good value proposition at $90. Consider bundling with smart bulbs to increase AOV."],
     [name |-> <<"W", "i", "r", "e", "l", "e", "s", "s", " ", "C", "h", "a", "r", "g", "e", "r", " ", "P", "a", "d">>,
      category |-> "Electronics", competitor |-> "ChargeTech",
      price |-> Fraction(2999, 100), sentiment_score |-> Fraction(65, 100),
      sentiment_text |-> "Works fine but charges slowly",
      insight |-> "Price competitive but sentiment declining. Monitor competitor fast-charging offerings."],
     [name |-> <<"4", "K", " ", "W", "e", "b", "c", "a", "m", " ", "P", "r", "o">>,
      category |-> "Electronics", competitor |-> "VisionTech",
      price |-> Fraction(11999, 100), sentiment_score |-> Fraction(82, 100),
      sentiment_text |-> "Crystal clear video, perfect for remote work",
      insight |-> "Strong WFH market fit. Price 15% above market avg - consider promotion to gain share."],
     [name |-> <<"B", "l", "u", "e", "t", "o", "o", "t", "h", " ", "S", "p", "e", "a", "k", "e", "r", " ", "M", "i", "n", "i">>,
      category |-> "Electronics", competitor |-> "SoundWave",
      price |-> Fraction(3999, 100), sentiment_score |-> Fraction(71, 100),
      sentiment_text |-> "Good sound for the size",
      insight |-> "Entry-level product performing well. Opportunity to upsell to premium line."]>>

\* random.sample(product_pool, random.randint(3, 5)) (lines 206-207): the
\* indices of the products selected, in the order of selection
Samples ==
    {s \in UNION {[1..n -> 1..Len(product_pool)] : n \in 3..5} :
        \A i, j \in 1..Len(s) : i # j => s[i] # s[j]}

\* name.lower().replace(' ', '-')
Slug(name) == Replace(Lower(name), " ", <<"-">>)

\* lines 210-212: the product with its two source URLs
Stamped(product) ==
    [k \in DOMAIN product \cup {"source_url", "sentiment_source_url"} |->
        CASE k = "source_url" ->
                 <<"h", "t", "t", "p", "s", ":", "/", "/", "e", "x", "a", "m", "p", "l", "e", ".", "c", "o", "m", "/", "p", "r", "o", "d", "u", "c", "t", "s", "/">> \o Slug(product.name)
          [] k = "sentiment_source_url" ->
                 <<"h", "t", "t", "p", "s", ":", "/", "/", "e", "x", "a", "m", "p", "l", "e", ".", "c", "o", "m", "/", "r", "e", "v", "i", "e", "w", "s", "/">> \o Slug(product.name)
          [] OTHER -> product[k]]

\* the locals of scrape_demo_data and scrape_live_site
NoLocals ==
    [results |-> <<>>, product_name |-> <<>>, price |-> <<>>, reviews |-> <<>>,
     elements |-> 0]

\* page.close()
Closed(ps) == [ps EXCEPT ![Len(ps)].open = FALSE]

\* create_stealth_page() called by fn (lines 41-58)
Opened(ps, fn) == Append(ps, [open |-> TRUE, by |-> fn])

\* the products of the pool as lines 210-212 leave them
stamped_pool == [k \in 1..Len(product_pool) |-> Stamped(product_pool[k])]

\* the demo branch starts: create_stealth_page is awaited (line 81);
\* why = "" when the target selects demo mode
DemoBranch(ps, why) ==
    /\ pages' = ps
    /\ locals' = NoLocals
    /\ scrape_pc' = "demo_page"
    /\ selector' = 0
    /\ fallback' = why
    /\ UNCHANGED <<target, scraped>>

\* the exception of the live scrape reaches the caller of scrape_demo_data
LiveFailed_Escalates(why) ==
    /\ pages' = Closed(pages)
    /\ locals' = NoLocals
    /\ scrape_pc' = "raised"
    /\ selector' = 0
    /\ fallback' = why
    /\ UNCHANGED <<target, scraped>>

\* scrape_live_site raised in its try: it prints and returns None (lines
\* 267-269), closes the page (lines 270-271); scrape_demo_data prints the
\* fallback (lines 75-76) and goes on with the demo branch
LiveFailed(why) == DemoBranch(Closed(pages), why)

\* the live record (lines 248-265) for the reviews returned by
\* _extract_reviews
LiveData(url, product_name, price, reviews) ==
    [name |-> product_name,
     category |-> "Unknown",
     competitor |-> Netloc(url),
     price |-> price,
     sentiment_score |-> _calculate_sentiment_from_reviews(reviews),
     sentiment_text |-> IF reviews # <<>> THEN Truncate(reviews[1], 200) ELSE <<>>,
     raw_reviews |-> reviews,
     source_url |-> url,
     insight |-> <<"Live data extracted from", Netloc(url)>>]

\* _extract_reviews returns reviews[:limit] (line 371), scrape_live_site
\* assembles the record and closes the page (lines 248-271), scrape_demo_data
\* returns it alone (lines 72-74)
Assemble(reviews) ==
    /\ scraped' = <<<<LiveData(target, locals.product_name[1], locals.price[1],
                              Truncate(reviews, 3))>>>>
    /\ pages' = Closed(pages)
    /\ locals' = NoLocals
    /\ scrape_pc' = "returned"
    /\ selector' = 0
    /\ UNCHANGED <<target, fallback>>

\* the for loop of _extract_reviews goes on with the next selector, or is
\* over after the last one
NextReviewSelector(reviews) ==
    IF selector < ReviewSelectors
    THEN /\ selector' = selector + 1
         /\ locals' = [locals EXCEPT !.reviews = reviews, !.elements = 0]
         /\ scrape_pc' = "reviews"
         /\ UNCHANGED <<target, pages, fallback, scraped>>
    ELSE Assemble(reviews)

\* the for loop over the elements is over (lines 366-367): with a review
\* the selector loop is left, without one it goes on
AfterElements(reviews) ==
    IF reviews # <<>> THEN Assemble(reviews) ELSE NextReviewSelector(reviews)

\* _extract_price_from_page returned price (line 320 or 332);
\* _extract_reviews starts (line 245)
PriceFound(price) ==
    /\ locals' = [locals EXCEPT !.price = <<price>>]
    /\ scrape_pc' = "reviews"
    /\ selector' = 1
    /\ UNCHANGED <<target, pages, fallback, scraped>>

\* the first selector that fails sends the extraction to the full-page
\* fallback: the selectors after it are not tried
NextPriceSelector_FallbackFirst ==
    /\ selector' = 0 /\ scrape_pc' = "content"
    /\ UNCHANGED <<target, pages, locals, fallback, scraped>>

\* the for loop of _extract_price_from_page goes on with the next selector,
\* or with the full-page fallback after the last one (line 326)
NextPriceSelector ==
    /\ IF selector < PriceSelectors
       THEN selector' = selector + 1 /\ scrape_pc' = "price"
       ELSE selector' = 0 /\ scrape_pc' = "content"
    /\ UNCHANGED <<target, pages, locals, fallback, scraped>>

\* _extract_product_name returned name; _extract_price_from_page starts
NameFound(name) ==
    /\ locals' = [locals EXCEPT !.product_name = <<name>>]
    /\ scrape_pc' = "price"
    /\ selector' = 1
    /\ UNCHANGED <<target, pages, fallback, scraped>>

UnknownProduct == <<"U", "n", "k", "n", "o", "w", "n", " ", "P", "r", "o", "d", "u", "c", "t">>

\* no selector gave a name and _extract_product_name raises
NameNotFound_Raises == LiveFailed("name")

\* no selector gave a name: return 'Unknown Product' (line 293)
NameNotFound == NameFound(UnknownProduct)

\* the text node matches \$[\d,]+\.?\d* somewhere (line 328)
HasDollarNumber(node) ==
    \E k \in 1..(Len(node) - 1) :
        node[k] = "$" /\ node[k + 1] \in Digits \cup {","}

\* `if price:` alone: 0.0 passes a `price is not None` test
Positive_NotNone(price) == price # <<>>

\* price and price > 0 (lines 319, 331) for the value of _extract_price
Positive(price) == price # <<>> /\ price[1].num > 0

\* ------------------------------------------------------------------ scraper.py: actions

\* scrape_demo_data(target) is called: a URL goes to scrape_live_site, any
\* other target to the demo branch; both start with create_stealth_page
\* (lines 68-71 and 232, or line 81)
ScrapeDemoData ==
    /\ scrape_pc = "start"
    /\ probe' = NoProbe
    /\ IF IsLiveTarget(target)
       THEN /\ scrape_pc' = "live_page"
            /\ UNCHANGED <<target, pages, selector, locals, fallback, scraped>>
       ELSE DemoBranch(pages, "")
    /\ UNCHANGED <<validator_vars, function_vars, concurrent_vars>>

\* create_stealth_page of scrape_live_site returned the page (line 232);
\* page.goto is awaited (line 236)
LivePage ==
    /\ scrape_pc = "live_page"
    /\ probe' = NoProbe
    /\ pages' = Opened(pages, "scrape_live_site")
    /\ scrape_pc' = "goto"
    /\ UNCHANGED <<target, selector, locals, fallback, scraped>>
    /\ UNCHANGED <<validator_vars, function_vars, concurrent_vars>>

\* create_stealth_page of the demo branch returned the page (line 81):
\* products are selected and stamped (lines 84-214), asyncio.sleep is
\* awaited (line 217)
DemoPage ==
    /\ scrape_pc = "demo_page"
    /\ probe' = NoProbe
    /\ pages' = Opened(pages, "scrape_demo_data")
    /\ IF target = TargetDefault \/ locals.results = <<>>
       THEN \E s \in Samples :
                locals' = [locals EXCEPT
                              !.results = @ \o [k \in 1..Len(s) |-> stamped_pool[s[k]]]]
       ELSE UNCHANGED locals
    /\ scrape_pc' = "sleep"
    /\ UNCHANGED <<target, selector, fallback, scraped>>
    /\ UNCHANGED <<validator_vars, function_vars, concurrent_vars>>

\* page.goto(url, wait_until='networkidle', timeout=30000) is over: the page
\* is loaded, or the navigation timed out or failed
Goto ==
    /\ scrape_pc = "goto"
    /\ \E a \in GotoAnswers :
           /\ probe' = a
           /\ IF a.kind = "ok"
              THEN /\ scrape_pc' = "name"
                   /\ selector' = 1
                   /\ UNCHANGED <<target, pages, locals, fallback, scraped>>
              ELSE LiveFailed("navigation")
    /\ UNCHANGED <<validator_vars, function_vars, concurrent_vars>>

\* one turn of the for loop of _extract_product_name (lines 283-291):
\* query_selector and inner_text for the selector
NameProbe ==
    /\ scrape_pc = "name"
    /\ \E a \in NameAnswers :
           /\ probe' = a
           /\ IF a.kind = "text" /\ Len(Strip(a.value)) > 0
              THEN NameFound(Truncate(Strip(a.value), 100))
              ELSE IF selector < NameSelectors
              THEN /\ selector' = selector + 1
                   /\ UNCHANGED <<target, scrape_pc, pages, locals, fallback, scraped>>
              ELSE NameNotFound
    /\ UNCHANGED <<validator_vars, function_vars, concurrent_vars>>

\* one turn of the for loop of _extract_price_from_page (lines 312-322)
PriceProbe ==
    /\ scrape_pc = "price"
    /\ \E a \in PriceAnswers :
           /\ probe' = a
           /\ IF a.kind = "text" /\ Positive(_extract_price(a.value))
              THEN PriceFound(_extract_price(a.value)[1])
              ELSE NextPriceSelector
    /\ UNCHANGED <<validator_vars, function_vars, concurrent_vars>>

\* the full-page fallback (lines 325-336): page.content(), the first text
\* node with a currency-prefixed number, its price; else ValueError
PriceFallback ==
    /\ scrape_pc = "content"
    /\ \E a \in ContentAnswers :
           /\ probe' = a
           /\ LET nodes == IF a.kind = "content"
                           THEN {k \in 1..Len(a.value) : HasDollarNumber(a.value[k])}
                           ELSE {}
                  price == IF nodes = {} THEN <<>>
                           ELSE _extract_price(
                                    a.value[CHOOSE k \in nodes : \A j \in nodes : k <= j])
              IN  IF Positive(price) THEN PriceFound(price[1]) ELSE LiveFailed("price")
    /\ UNCHANGED <<validator_vars, function_vars, concurrent_vars>>

\* page.query_selector_all(selector) of _extract_reviews (line 357) is over
ReviewsQuery ==
    /\ scrape_pc = "reviews"
    /\ \E a \in ReviewsAnswers :
           /\ probe' = a
           /\ IF a.kind = "raises" THEN NextReviewSelector(locals.reviews)
              ELSE IF a.value = 0 THEN AfterElements(locals.reviews)
              ELSE /\ locals' = [locals EXCEPT !.elements = a.value]
                   /\ scrape_pc' = "review_text"
                   /\ UNCHANGED <<target, pages, selector, fallback, scraped>>
    /\ UNCHANGED <<validator_vars, function_vars, concurrent_vars>>

\* element.inner_text() of _extract_reviews (line 359) is over, for the
\* next of the elements of the selector (lines 358-369)
ReviewText ==
    /\ scrape_pc = "review_text"
    /\ \E a \in ReviewTextAnswers :
           /\ probe' = a
           /\ IF a.kind = "raises" THEN NextReviewSelector(locals.reviews)
              ELSE LET reviews == IF Len(Strip(a.value)) > 20
                                  THEN Append(locals.reviews,
                                              Truncate(Strip(a.value), 500))
                                  ELSE locals.reviews
                   IN  IF reviews # locals.reviews /\ Len(reviews) >= 3
                       THEN AfterElements(reviews)
                       ELSE IF locals.elements = 1
                       THEN AfterElements(reviews)
                       ELSE /\ locals' = [locals EXCEPT !.reviews = reviews,
                                                        !.elements = @ - 1]
                            /\ UNCHANGED <<target, scrape_pc, pages, selector,
                                           fallback, scraped>>
    /\ UNCHANGED <<validator_vars, function_vars, concurrent_vars>>

\* asyncio.sleep(1) of the demo branch is over: the page is closed and the
\* products are returned (lines 217-225)
DemoReturn ==
    /\ scrape_pc = "sleep"
    /\ probe' = NoProbe
    /\ scraped' = <<locals.results>>
    /\ pages' = Closed(pages)
    /\ locals' = NoLocals
    /\ scrape_pc' = "returned"
    /\ UNCHANGED <<target, selector, fallback>>
    /\ UNCHANGED <<validator_vars, function_vars, concurrent_vars>>

ScraperInit ==
    /\ target \in Targets
    /\ scrape_pc = "start"
    /\ pages = <<>>
    /\ selector = 0
    /\ locals = NoLocals
    /\ fallback = ""
    /\ probe = NoProbe
    /\ scraped = <<>>
    /\ ValidatorInit(<<>>)
    /\ FunctionsIdle
    /\ ConcurrentIdle

ScraperNext ==
    \/ ScrapeDemoData
    \/ LivePage
    \/ DemoPage
    \/ Goto
    \/ NameProbe
    \/ PriceProbe
    \/ PriceFallback
    \/ ReviewsQuery
    \/ ReviewText
    \/ DemoReturn

ScraperSpec == ScraperInit /\ [][ScraperNext]_vars

\* ------------------------------------------------------------------ scraper.py: successive scrape calls

\* the handle of a page is held by the call that opened it
StillOpen(page) == page.open

\* the exception leaves the try of the demo branch with the page open
DemoRaised_NoFinally ==
    /\ pages' = pages
    /\ locals' = NoLocals
    /\ scrape_pc' = "raised"
    /\ UNCHANGED <<target, selector, fallback, scraped>>

\* an exception in the try of the demo branch: an Exception is printed and
\* raised again (lines 219-221), any other goes by the handler; the page is
\* closed (lines 222-223) and the exception reaches the caller
DemoRaised ==
    /\ pages' = Closed(pages)
    /\ locals' = NoLocals
    /\ scrape_pc' = "raised"
    /\ UNCHANGED <<target, selector, fallback, scraped>>

\* asyncio.sleep(1) of the demo branch (line 217) raises: the task was
\* cancelled while it slept
DemoSleepRaises ==
    /\ scrape_pc = "sleep"
    /\ probe' = NoProbe
    /\ DemoRaised
    /\ UNCHANGED <<validator_vars, function_vars, concurrent_vars>>

\* the call is over and scrape_demo_data is called again on the same
\* scraper, for the next target of the request or for a later request
\* (main.py lines 88-97): the handles of the closed pages are gone with the
\* locals of the finished call, the browser keeps the pages left open
ScrapeAgain ==
    /\ scrape_pc \in {"returned", "raised"}
    /\ target' \in Targets
    /\ scrape_pc' = "start"
    /\ selector' = 0
    /\ locals' = NoLocals
    /\ fallback' = ""
    /\ probe' = NoProbe
    /\ scraped' = <<>>
    /\ pages' = SelectSeq(pages, StillOpen)
    /\ UNCHANGED <<validator_vars, function_vars, concurrent_vars>>

ScrapeCallsNext ==
    \/ ScrapeDemoData
    \/ LivePage
    \/ DemoPage
    \/ Goto
    \/ NameProbe
    \/ PriceProbe
    \/ PriceFallback
    \/ ReviewsQuery
    \/ ReviewText
    \/ DemoReturn
    \/ DemoSleepRaises
    \/ ScrapeAgain

ScrapeCallsSpec == ScraperInit /\ [][ScrapeCallsNext]_vars

\* ------------------------------------------------------------------ main.py: concurrent requests

\* Largest number of items of the batch of a concurrent request.
MaxConcurrentItems == 1

\* the two requests in flight
Validators == {1, 2}

\* the items of request v: named after the request; one with every fact and
\* both source URLs valid, one whose price fails validation
RequestName(v) == IF v = 1 THEN "Widget" ELSE "Gadget"
ConcurrentItems(v) ==
    {MakeItem(<<RequestName(v)>>, Price, PriceUrl, Score, SentimentUrl),
     MakeItem(<<RequestName(v)>>, <<0>>, PriceUrl, <<>>, <<>>)}
ConcurrentBatches(v) ==
    UNION {[1..n -> ConcurrentItems(v)] : n \in 0..MaxConcurrentItems}

\* the frame of process_scraped_data(b) when it is called (lines 36-41)
InitialFrame(b) ==
    [batch |-> b, pc |-> "start", idx |-> 0, product_id |-> 0,
     results |-> [products_created |-> 0, prices_added |-> 0,
                  sentiments_added |-> 0, errors |-> <<>>],
     thoughts |-> <<>>, calls |-> <<>>, sent |-> 0, log_post |-> <<>>,
     returned |-> <<>>,
     acks |-> [products |-> {}, prices |-> {}, sentiment |-> {}]]

\* one list object shared by every instance (a class attribute, or a
\* mutable default argument)
NewList_Shared(v) == 1

\* self.thoughts = [] in __init__ (line 19): a new list object for each
\* instance; the objects are named after the instance
NewList(v) == v

\* the answers of the backend to the POST awaited at pc
ConcurrentReplies(at) ==
    CASE at = "await_create"    -> CreateResponses
      [] at = "await_price"     -> SaveResponses
      [] at = "await_sentiment" -> SaveResponses
      [] at = "await_log"       -> LogResponses
      [] OTHER                  -> {}

\* the coroutine suspended at f.pc is resumed with the answer r
Resume(f, r) ==
    CASE f.pc = "await_create" ->
             AfterCreate(Answered(f, r), CreateProductResult(r))
      [] f.pc = "await_price" ->
             AfterSavePrice(Answered(f, r), SavePriceResult(r))
      [] f.pc = "await_sentiment" ->
             AfterSaveSentiment(Answered(f, r), SaveSentimentResult(r))
      [] f.pc = "await_log" ->
             IF r.exc THEN FlushFailed(f) ELSE SendNextLog(f)
      [] OTHER -> f

\* the frame of request v, self.thoughts read through its reference
Loaded(v) ==
    [validators[v].frame EXCEPT !.thoughts = lists[validators[v].thoughts]]

\* request v ran to the frame g at its next await (h: the same stretch of
\* code run alone): self.thoughts is written through its reference
Suspend(v, g, h) ==
    /\ validators' = [validators EXCEPT ![v].frame = [g EXCEPT !.thoughts = <<>>]]
    /\ lists' = [lists EXCEPT ![validators[v].thoughts] = g.thoughts]
    /\ alone' = [alone EXCEPT ![v] = h]
    /\ UNCHANGED <<validator_vars, scraper_vars, function_vars>>

\* request v: validator.process_scraped_data(all_results) (main.py, line
\* 102) runs to its first await
ProcessScrapedData(v) ==
    /\ validators[v].frame.pc = "start"
    /\ Suspend(v, NextItem(Loaded(v)), NextItem(alone[v]))

\* the backend answers the POST request v awaits
BackendAnswers(v) ==
    /\ \E r \in ConcurrentReplies(validators[v].frame.pc) :
           Suspend(v, Resume(Loaded(v), r), Resume(alone[v], r))

\* both requests have constructed their validator (main.py, line 101)
ConcurrentInit ==
    /\ \E b \in [Validators -> UNION {ConcurrentBatches(v) : v \in Validators}] :
           /\ \A v \in Validators : b[v] \in ConcurrentBatches(v)
           /\ validators = [v \in Validators |->
                                [thoughts |-> NewList(v), frame |-> InitialFrame(b[v])]]
           /\ alone = [v \in Validators |-> InitialFrame(b[v])]
    /\ lists = [l \in {NewList(v) : v \in Validators} |-> <<>>]
    /\ ValidatorInit(<<>>)
    /\ ScraperIdle
    /\ FunctionsIdle

ConcurrentNext ==
    \/ \E v \in Validators : ProcessScrapedData(v)
    \/ \E v \in Validators : BackendAnswers(v)

ConcurrentSpec == ConcurrentInit /\ [][ConcurrentNext]_vars

\* ------------------------------------------------------------------ reading the state

\* the POSTs issued to an endpoint for item i
CallsOf(endpoint, i) ==
    {k \in 1..Len(calls) : calls[k].endpoint = endpoint /\ calls[k].item = i}

\* the backend has answered the POST /api/products of item i
CreateAnswered(i) == i < idx \/ (i = idx /\ pc # "await_create")

\* the validator has finished item i
Finished(i) == i < idx \/ (i = idx /\ pc \in {"await_log", "done"})

\* a URL in the sense of RFC 3986 with an authority: scheme "://" host
AbsoluteUrl(u) ==
    \E k \in 2..Len(u) :
        /\ u[k] = ":"
        /\ \A j \in 1..(k - 1) : u[j] \notin {":", "/"}
        /\ Len(u) >= k + 3
        /\ u[k + 1] = "/"
        /\ u[k + 2] = "/"
        /\ u[k + 3] \notin {":", "/"}

\* ------------------------------------------------------------------ claims

\* the key of an item that holds the source URL of the fact an endpoint stores
SourceKey(endpoint) ==
    IF endpoint = "prices" THEN "source_url" ELSE "sentiment_source_url"

\* C1: every VerifiedPrice body posted to /api/products/{id}/prices and every
\* VerifiedSentiment body posted to /api/sentiment carries a source_url that
\* is not empty and is an absolute URL, and the item it was built from has
\* that source URL: an item whose source URL is missing, empty or malformed
\* causes no price or sentiment write.
C1_SourceUrlGrounded ==
    \A k \in 1..Len(calls) :
        calls[k].endpoint \in {"prices", "sentiment"} =>
            LET item == batch[calls[k].item]
                key  == SourceKey(calls[k].endpoint)
            IN  /\ calls[k].body.source_url # <<>>
                /\ AbsoluteUrl(calls[k].body.source_url)
                /\ key \in DOMAIN item
                /\ item[key] # <<>>
                /\ AbsoluteUrl(item[key])

\* a finished batch with a price write, a sentiment write, and a created
\* product whose item carries a malformed source_url
C1_Witness ==
    /\ pc = "done"
    /\ \E k \in 1..Len(calls) : calls[k].endpoint = "prices"
    /\ \E k \in 1..Len(calls) : calls[k].endpoint = "sentiment"
    /\ \E i \in 1..Len(batch) :
           /\ "source_url" \in DOMAIN batch[i]
           /\ ~AbsoluteUrl(batch[i]["source_url"])
           /\ \E e \in 1..Len(results.errors) :
                  /\ results.errors[e].item = i
                  /\ results.errors[e].msg[1] = "Price validation failed"

\* the call is suspended at a POST whose answer resumes it: the guard of the
\* action that handles the answer holds
Resumable ==
    /\ pc \in {"await_create", "await_price", "await_sentiment", "await_log"}
    /\ pc = "await_log" => log_post # <<>>
    /\ pc # "await_log" =>
           /\ calls # <<>>
           /\ calls[Len(calls)].item = idx
           /\ calls[Len(calls)].endpoint =
                  (CASE pc = "await_create" -> "products"
                     [] pc = "await_price" -> "prices"
                     [] pc = "await_sentiment" -> "sentiment")
           /\ reply \in Replies(pc)

\* C2: the call runs to completion and returns its accumulator: until it
\* returns it is either not yet started or suspended at a POST whose answer,
\* whatever it is, resumes it (no exception ends it), and when it has returned
\* every item of the batch has been visited (its product POST was issued), so
\* a failure on one item never stops the later ones.
C2_BatchCompletes ==
    /\ pc # "done" => returned = <<>> /\ (pc = "start" \/ Resumable)
    /\ pc = "done" =>
           /\ returned = <<results>>
           /\ \A i \in 1..Len(batch) : CallsOf("products", i) # {}

\* a returned batch whose first item failed at product creation and whose
\* second item had a sentiment validation failure or a price persisted
C2_Witness ==
    /\ pc = "done"
    /\ Len(batch) >= 2
    /\ \E e \in 1..Len(results.errors) :
           /\ results.errors[e].item = 1
           /\ results.errors[e].msg[1] = "Failed to create product"
    /\ 2 \in acks.prices
    /\ 2 \notin acks.sentiment
    /\ CallsOf("sentiment", 2) # {}

\* the item has everything a valid price and a valid sentiment need
FullyValid(item) ==
    /\ {"price", "source_url", "sentiment_score", "sentiment_source_url"}
           \subseteq DOMAIN item
    /\ VerifiedPriceErrors(0, item["price"], item["source_url"]) = {}
    /\ VerifiedSentimentErrors(0, item["sentiment_score"],
                               item["sentiment_source_url"]) = {}

\* the item is valid but for its source_url, which is absent
LacksSourceUrl(item) ==
    /\ "source_url" \notin DOMAIN item
    /\ {"price", "sentiment_score", "sentiment_source_url"} \subseteq DOMAIN item
    /\ item["price"] > 0
    /\ VerifiedSentimentErrors(0, item["sentiment_score"],
                               item["sentiment_source_url"]) = {}

\* the backend created every product and accepted every price and sentiment
\* write of the batch
BackendAcceptedAll ==
    /\ results.products_created = Len(batch)
    /\ \A k \in 1..Len(calls) :
           calls[k].endpoint \in {"prices", "sentiment"} =>
               calls[k].item \in acks[calls[k].endpoint]

\* C3: in a returned batch whose items are valid except that k of them lack
\* source_url, with a backend that accepts every write, prices_added counts
\* the items that have a source_url and exactly k skip/error entries are
\* recorded, one per item that lacks source_url.
C3_SkipsAreRecorded ==
    (/\ pc = "done"
     /\ BackendAcceptedAll
     /\ \A i \in 1..Len(batch) : FullyValid(batch[i]) \/ LacksSourceUrl(batch[i]))
    => LET lacking == {i \in 1..Len(batch) : LacksSourceUrl(batch[i])}
       IN  /\ results.prices_added = Len(batch) - Cardinality(lacking)
           /\ Len(results.errors) = Cardinality(lacking)
           /\ \A i \in lacking :
                  Cardinality({e \in 1..Len(results.errors) :
                                  results.errors[e].item = i}) = 1

\* the POST of a price or a sentiment of item i was issued and the backend
\* did not accept it (another status, a timeout, unreachable)
WriteRejected(endpoint, i) ==
    /\ CallsOf(endpoint, i) # {}
    /\ Finished(i)
    /\ i \notin acks[endpoint]

\* the errors and the thoughts with status error recorded for item i whose
\* message starts with one of the given words
ErrorsAbout(i, words) ==
    {e \in 1..Len(results.errors) :
        results.errors[e].item = i /\ results.errors[e].msg[1] \in words}
ErrorThoughtsAbout(i, words) ==
    {t \in 1..Len(thoughts) :
        /\ thoughts[t].item = i
        /\ thoughts[t].status = "error"
        /\ thoughts[t].thought[1] \in words}

\* C4: a price or sentiment write that the backend rejects, times out on or
\* is unreachable for is recorded: a message in errors and a thought with
\* status error for that item and that fact.
C4_RejectedWriteIsRecorded ==
    \A i \in 1..Len(batch) :
        /\ WriteRejected("prices", i) =>
               /\ ErrorsAbout(i, {"Price validation failed"}) # {}
               /\ ErrorThoughtsAbout(i, {"Price validation failed"}) # {}
        /\ WriteRejected("sentiment", i) =>
               /\ ErrorsAbout(i, {"Sentiment validation failed"}) # {}
               /\ ErrorThoughtsAbout(i, {"Sentiment validation failed"}) # {}

\* the thoughts logged for item i with one of the given actions
ThoughtsOf(i, actions) ==
    {t \in 1..Len(thoughts) : thoughts[t].item = i /\ thoughts[t].action \in actions}

\* the validator created the product of item i (line 64 ran): it got an answer
\* and recorded no product-creation failure
Created(i) ==
    /\ CreateAnswered(i)
    /\ ErrorsAbout(i, {"Failed to create product"}) = {}

PriceActions     == {"Price Verification", "Price Validation"}
SentimentActions == {"Sentiment Verification", "Sentiment Validation"}

\* C5: every transition of a finished item has exactly one thought: the
\* product transition (the thought that announces the item when the product
\* is created, one "Product Creation" thought when it is not), and for a
\* created product one thought for the price outcome (verified, skipped or
\* failed) and one for the sentiment outcome, in that order.
C5_OneThoughtPerTransition ==
    \A i \in 1..Len(batch) :
        Finished(i) =>
            /\ Cardinality(ThoughtsOf(i, {"Data Validation"})) = 1
            /\ ~Created(i) => Cardinality(ThoughtsOf(i, {"Product Creation"})) = 1
            /\ Created(i) =>
                   /\ Cardinality(ThoughtsOf(i, PriceActions)) = 1
                   /\ Cardinality(ThoughtsOf(i, SentimentActions)) = 1
                   /\ \A p \in ThoughtsOf(i, PriceActions) :
                          \A q \in ThoughtsOf(i, SentimentActions) : p < q

\* the place of an endpoint in the processing of one item
Rank(endpoint) ==
    CASE endpoint = "products"  -> 1
      [] endpoint = "prices"    -> 2
      [] endpoint = "sentiment" -> 3

\* C6: items are processed one after the other in input order: the POSTs are
\* in the order of the items and, within an item, product, price, sentiment;
\* the thoughts are in the order of the items; nothing is logged or posted
\* for an item before the loop reaches it, an item's first thought and its
\* product POST come together, so no entry of item i follows one of item i+1.
C6_SequentialOrder ==
    /\ \A k \in 2..Len(calls) :
           \/ calls[k - 1].item < calls[k].item
           \/ /\ calls[k - 1].item = calls[k].item
              /\ Rank(calls[k - 1].endpoint) < Rank(calls[k].endpoint)
    /\ \A k \in 2..Len(thoughts) : thoughts[k - 1].item <= thoughts[k].item
    /\ \A k \in 1..Len(calls) :
           /\ calls[k].item \in 1..idx
           /\ \E t \in 1..Len(thoughts) :
                  /\ thoughts[t].item = calls[k].item
                  /\ thoughts[t].action = "Data Validation"
    /\ \A t \in 1..Len(thoughts) :
           /\ thoughts[t].item \in 1..idx
           /\ \E k \in 1..Len(calls) :
                  /\ calls[k].item = thoughts[t].item
                  /\ calls[k].endpoint = "products"

\* a finished batch of two items in which both items had a product, a price
\* and a sentiment POST
C6_Witness ==
    /\ pc = "done"
    /\ Len(batch) >= 2
    /\ \A i \in 1..2 :
           /\ CallsOf("products", i) # {}
           /\ CallsOf("prices", i) # {}
           /\ CallsOf("sentiment", i) # {}
           /\ ThoughtsOf(i, PriceActions \cup SentimentActions) # {}

\* the item gives the sentiment sub-flow its two inputs
HasSentimentInputs(item) ==
    "sentiment_score" \in DOMAIN item /\ "sentiment_source_url" \in DOMAIN item

\* C7: once the product of an item is created, its sentiment sub-flow is
\* attempted (a VerifiedSentiment is built: a sentiment POST or a sentiment
\* validation failure) whatever the price outcome was (skipped, validation
\* failure, rejected, timeout), and the sentiment sub-flow leaves the price
\* outcome alone: the price is recorded as verified exactly for the items
\* whose price write the backend accepted, and prices_added counts them.
C7_SubFlowsIndependent ==
    /\ \A i \in 1..Len(batch) :
           (Finished(i) /\ Created(i)) =>
               /\ HasSentimentInputs(batch[i]) =>
                      \/ CallsOf("sentiment", i) # {}
                      \/ ErrorsAbout(i, {"Sentiment validation failed"}) # {}
               /\ Cardinality(ThoughtsOf(i, {"Price Verification"}))
                      = IF i \in acks.prices THEN 1 ELSE 0
    /\ results.prices_added = Cardinality(acks.prices)

\* a finished item whose price failed validation and whose sentiment was
\* persisted, and one whose price write was rejected and whose sentiment
\* write was issued and rejected
C7_Witness ==
    /\ pc = "done"
    /\ \E i \in 1..Len(batch) :
           /\ ErrorsAbout(i, {"Price validation failed"}) # {}
           /\ i \in acks.sentiment
    /\ \E i \in 1..Len(batch) :
           /\ WriteRejected("prices", i)
           /\ WriteRejected("sentiment", i)

\* C8: a product creation that the backend does not accept is terminal for
\* the item: the item is finished at once (the loop moves on), exactly one
\* error and one thought with status error are recorded for it, both about
\* the product creation, no price and no sentiment POST is issued for it, and
\* products_created counts no such item.
C8_CreationFailureIsTerminal ==
    /\ \A i \in 1..Len(batch) :
           (CreateAnswered(i) /\ i \notin acks.products) =>
               /\ Finished(i)
               /\ Cardinality({e \in 1..Len(results.errors) :
                                  results.errors[e].item = i}) = 1
               /\ Cardinality(ErrorsAbout(i, {"Failed to create product"})) = 1
               /\ Cardinality({t \in 1..Len(thoughts) :
                                  thoughts[t].item = i /\ thoughts[t].status = "error"}) = 1
               /\ Cardinality(ThoughtsOf(i, {"Product Creation"})) = 1
               /\ CallsOf("prices", i) = {}
               /\ CallsOf("sentiment", i) = {}
    /\ results.products_created <= Cardinality(acks.products)

\* a finished batch whose first item was refused by the backend and whose
\* second item was created
C8_Witness ==
    /\ pc = "done"
    /\ Len(batch) >= 2
    /\ 1 \notin acks.products
    /\ 2 \in acks.products
    /\ results.products_created = 1
    /\ HasSentimentInputs(batch[1])

\* C9: an item reaches ProductCreated if and only if the backend answered its
\* POST /api/products with 201 and a body {data: {id: int}}, whatever the id.
C9_CreatedIffAccepted ==
    \A i \in 1..Len(batch) :
        CreateAnswered(i) => (Created(i) <=> i \in acks.products)

\* C10: the counters count the persisted facts: products_created the items
\* whose product creation the backend accepted, prices_added the items whose
\* price write it answered with 201, sentiments_added the same for sentiment.
C10_CountersMatchBackend ==
    /\ results.products_created = Cardinality(acks.products)
    /\ results.prices_added = Cardinality(acks.prices)
    /\ results.sentiments_added = Cardinality(acks.sentiment)

\* the item gives the price sub-flow its two inputs
HasPriceInputs(item) == "price" \in DOMAIN item /\ "source_url" \in DOMAIN item

\* the inputs of a sub-flow are present and the verified record cannot be
\* built from them
PriceInvalid(item) ==
    /\ HasPriceInputs(item)
    /\ VerifiedPriceErrors(0, item["price"], item["source_url"]) # {}
SentimentInvalid(item) ==
    /\ HasSentimentInputs(item)
    /\ VerifiedSentimentErrors(0, item["sentiment_score"],
                               item["sentiment_source_url"]) # {}

\* the price sub-flow of item i is over
PriceStepOver(i) ==
    i < idx \/ (i = idx /\ pc \in {"await_sentiment", "await_log", "done"})

\* the errors and the thoughts with status error of item i
ErrorsOf(i) == {e \in 1..Len(results.errors) : results.errors[e].item = i}
ErrorThoughtsOf(i) ==
    {t \in 1..Len(thoughts) : thoughts[t].item = i /\ thoughts[t].status = "error"}

\* what is recorded for the items whose verified record cannot be built
ValidationErrorIsItemLocal ==
    /\ \A i \in 1..Len(batch) :
           /\ (Created(i) /\ PriceStepOver(i) /\ PriceInvalid(batch[i])) =>
                  /\ CallsOf("prices", i) = {}
                  /\ ThoughtsOf(i, {"Price Verification"}) = {}
                  /\ Cardinality(ErrorsAbout(i, {"Price validation failed"})) = 1
                  /\ Cardinality(ErrorThoughtsAbout(i, {"Price validation failed"})) = 1
                  /\ Cardinality(ThoughtsOf(i, {"Price Validation"})) = 1
           /\ (Created(i) /\ Finished(i) /\ SentimentInvalid(batch[i])) =>
                  /\ CallsOf("sentiment", i) = {}
                  /\ ThoughtsOf(i, {"Sentiment Verification"}) = {}
                  /\ Cardinality(ErrorsAbout(i, {"Sentiment validation failed"})) = 1
                  /\ Cardinality(ErrorThoughtsAbout(i, {"Sentiment validation failed"})) = 1
                  /\ Cardinality(ThoughtsOf(i, {"Sentiment Validation"})) = 1
           /\ (Finished(i) /\ Created(i)) =>
                  /\ Cardinality(ErrorsOf(i))
                         = (IF PriceInvalid(batch[i]) THEN 1 ELSE 0)
                           + (IF SentimentInvalid(batch[i]) THEN 1 ELSE 0)
                  /\ Cardinality(ErrorThoughtsOf(i)) = Cardinality(ErrorsOf(i))
           /\ ErrorsAbout(i, {"Error processing item"}) = {}
    /\ results.prices_added
           = Cardinality({i \in 1..Len(batch) : ThoughtsOf(i, {"Price Verification"}) # {}})
    /\ results.sentiments_added
           = Cardinality({i \in 1..Len(batch) :
                             ThoughtsOf(i, {"Sentiment Verification"}) # {}})
    /\ pc = "done" => idx = Len(batch) /\ returned = <<results>>

\* C11: a verified record that cannot be built (price <= 0, score outside
\* [-1, 1], source URL empty or malformed) is item-local: no POST is issued
\* for that fact, the fact is not counted (the counter counts the verified
\* thoughts, and there is none for it), exactly one error and one thought
\* with status error are recorded for it, the handler of the whole item
\* (lines 112-115) is never reached, and the call returns its accumulator
\* after the last item; this holds at every point of every call.
C11_ValidationErrorIsItemLocal == []ValidationErrorIsItemLocal

\* a returned batch whose first item has a price of 0 and a persisted
\* sentiment, and whose second item has a persisted price and a score of 1.1
C11_Witness ==
    /\ pc = "done"
    /\ Len(batch) >= 2
    /\ Created(1) /\ PriceInvalid(batch[1]) /\ batch[1]["price"] <= 0
    /\ 1 \in acks.sentiment
    /\ Created(2) /\ SentimentInvalid(batch[2]) /\ batch[2]["sentiment_score"] > 10
    /\ 2 \in acks.prices
    /\ Len(results.errors) = 2

\* C12: an item that lacks price or source_url has no price attempt: no
\* POST to /api/products/{id}/prices and no trace of a VerifiedPrice being
\* built (no price validation failure, no price thought); the same for
\* sentiment_score, sentiment_source_url and /api/sentiment.
C12_AbsentInputsNoAttempt ==
    \A i \in 1..Len(batch) :
        /\ ~HasPriceInputs(batch[i]) =>
               /\ CallsOf("prices", i) = {}
               /\ i \notin acks.prices
               /\ ErrorsAbout(i, {"Price validation failed"}) = {}
               /\ ThoughtsOf(i, PriceActions) = {}
        /\ ~HasSentimentInputs(batch[i]) =>
               /\ CallsOf("sentiment", i) = {}
               /\ i \notin acks.sentiment
               /\ ErrorsAbout(i, {"Sentiment validation failed"}) = {}
               /\ ThoughtsOf(i, SentimentActions) = {}

\* a returned batch whose first item has a price and no source_url and a
\* persisted sentiment, and whose second item has a sentiment_score and no
\* sentiment_source_url and a persisted price
C12_Witness ==
    /\ pc = "done"
    /\ Len(batch) >= 2
    /\ Created(1) /\ "price" \in DOMAIN batch[1] /\ "source_url" \notin DOMAIN batch[1]
    /\ 1 \in acks.sentiment
    /\ Created(2) /\ "sentiment_score" \in DOMAIN batch[2]
    /\ "sentiment_source_url" \notin DOMAIN batch[2]
    /\ 2 \in acks.prices

\* C13: the log flush leaves the accumulator alone: no step of the flush,
\* whether the log POST was answered or raised, changes results (so they are
\* the values held when the last item finished), the data POSTs or the
\* thought log, and the step that ends the flush returns exactly results.
C13_FlushLeavesResultAlone ==
    [][pc = "await_log" =>
           (/\ results' = results
            /\ thoughts' = thoughts
            /\ calls' = calls
            /\ acks' = acks
            /\ pc' \in {"await_log", "done"}
            /\ (pc' = "done" => returned' = <<results>>))]_vars

\* the flush of a batch with an error and a persisted price has had two log
\* POSTs answered and is not over
C13_Witness ==
    /\ pc = "await_log"
    /\ sent >= 3
    /\ sent <= Len(thoughts)
    /\ results.errors # <<>>
    /\ results.prices_added >= 1

\* the entry of the flush at position k: the k-th thought, then the summary
FlushEntry(k) ==
    IF k <= Len(thoughts) THEN LogBody(thoughts[k]) ELSE SummaryBody(results)

\* C14: the flush starts after the last item is finished, with the first
\* entry of the thought log; each answered log POST is followed by the POST
\* of the next entry in the order of the thought log; the summary comes after
\* the last thought and nothing comes after the summary: when no log POST
\* fails, every thought has been posted exactly once before the summary.
C14_FlushInOrderSummaryLast ==
    /\ [](IF pc = "await_log"
          THEN /\ idx = Len(batch)
               /\ \A i \in 1..Len(batch) : Finished(i)
               /\ sent \in 1..(Len(thoughts) + 1)
               /\ log_post = <<FlushEntry(sent)>>
          ELSE sent = 0 /\ log_post = <<>>)
    /\ [][/\ (pc # "await_log" /\ pc' = "await_log") => sent' = 1
          /\ (pc = "await_log" /\ pc' = "await_log") => sent' = sent + 1
          /\ (pc = "await_log" /\ sent = Len(thoughts) + 1) => pc' = "done"
          /\ (pc' = "done") => pc = "await_log"]_vars

\* the summary is in flight after four thoughts of a batch of two items
C14_Witness ==
    /\ pc = "await_log"
    /\ Len(batch) >= 2
    /\ Len(thoughts) >= 4
    /\ sent = Len(thoughts) + 1
    /\ log_post[1].action = "Scraping Complete"

\* the statuses of an AgentThought
Statuses == {"running", "success", "error"}

\* C15: every entry of the thought log and every entry posted to
\* /api/agent/log, the summary included, has a status among running,
\* success, error.
C15_StatusVocabulary ==
    /\ \A t \in 1..Len(thoughts) : thoughts[t].status \in Statuses
    /\ log_post # <<>> => log_post[1].status \in Statuses

\* -1.0 <= score <= 1.0
InRange(score) ==
    /\ score.den > 0
    /\ -score.den <= score.num
    /\ score.num <= score.den

\* C19: for every text the score returned by _estimate_sentiment, and for
\* every list of texts the aggregate returned by
\* _calculate_sentiment_from_reviews, is at least -1.0 and at most 1.0.
C19_ScoreInRange ==
    (/\ fn_output # <<>>
     /\ fn_input.fn \in {"_estimate_sentiment", "_calculate_sentiment_from_reviews"})
    => InRange(fn_output[1])

\* the aggregate of three reviews is computed and lies strictly between 0
\* and 1
C19_Witness ==
    /\ fn_output # <<>>
    /\ fn_input.fn = "_calculate_sentiment_from_reviews"
    /\ Len(fn_input.arg) = 3
    /\ fn_output[1].num > 0
    /\ fn_output[1].num < fn_output[1].den

\* the number of occurrences of the terms of a lexicon in the text: a term
\* that occurs twice counts twice
Occurrences(words, text_lower) ==
    Cardinality({p \in (1..Len(words)) \X (1..Len(text_lower)) :
                    /\ p[2] + Len(words[p[1]]) - 1 <= Len(text_lower)
                    /\ SubSeq(text_lower, p[2], p[2] + Len(words[p[1]]) - 1)
                           = words[p[1]]})

\* C20: the score of a text is (pos_count - neg_count) / (pos_count +
\* neg_count), and 0.0 when the denominator is 0, where pos_count and
\* neg_count are the numbers of occurrences of the positive and of the
\* negative terms in the lowercased text.
C20_ScoreFromOccurrences ==
    (fn_output # <<>> /\ fn_input.fn = "_estimate_sentiment") =>
        LET text_lower == Lower(fn_input.arg)
            pos_count  == Occurrences(positive_words, text_lower)
            neg_count  == Occurrences(negative_words, text_lower)
        IN  FracEq(fn_output[1],
                   IF pos_count + neg_count = 0 THEN Fraction(0, 1)
                   ELSE Fraction(pos_count - neg_count, pos_count + neg_count))

\* the call returned the record of a live scrape
ReturnedLive == scrape_pc = "returned" /\ IsLiveTarget(target) /\ fallback = ""

\* C16: for an http(s) target, a navigation timeout or failure and a price
\* extraction failure do not reach the caller of scrape_demo_data: the call
\* never ends with an exception, after such a failure it is in the demo
\* branch, and what it then returns is a non-empty list of items that each
\* carry a source_url and a sentiment_source_url (well-formed URLs).
C16_LiveFailureFallsBack ==
    /\ scrape_pc # "raised"
    /\ fallback # "" =>
           /\ fallback \in {"navigation", "price"}
           /\ IsLiveTarget(target)
           /\ scrape_pc \in {"demo_page", "sleep", "returned"}
    /\ (scrape_pc = "returned" /\ fallback # "") =>
           /\ scraped # <<>>
           /\ Len(scraped[1]) >= 1
           /\ \A k \in 1..Len(scraped[1]) :
                  /\ {"source_url", "sentiment_source_url"} \subseteq DOMAIN scraped[1][k]
                  /\ HttpUrlValid(scraped[1][k]["source_url"])
                  /\ HttpUrlValid(scraped[1][k]["sentiment_source_url"])

\* a call for an https URL whose page had no price returned five demo items
C16_Witness ==
    /\ scrape_pc = "returned"
    /\ StartsWith(target, <<"h", "t", "t", "p", "s">>)
    /\ fallback = "price"
    /\ Len(scraped[1]) = 5
    /\ \A k \in 1..Len(pages) : ~pages[k].open

\* C17: _extract_price_from_page returns a price greater than 0 or raises:
\* the price of the live scrape, once set, is positive, it is set when the
\* reviews are extracted and in the record returned, and a probe whose text
\* parses to no price or to a price that is not positive leaves the price
\* unset (the extraction goes on or fails).
C17_PricePositiveOrError ==
    /\ locals # <<>> =>
           /\ locals.price # <<>> =>
                  (locals.price[1].num > 0 /\ locals.price[1].den > 0)
           /\ scrape_pc \in {"reviews", "review_text"} => locals.price # <<>>
           /\ (/\ probe.kind = "text"
               /\ (scrape_pc = "price" /\ selector > 1) \/ scrape_pc = "content"
               /\ ~(_extract_price(probe.value) # <<>>
                     /\ _extract_price(probe.value)[1].num > 0))
              => locals.price = <<>>
    /\ ReturnedLive =>
           (scraped[1][1].price.num > 0 /\ scraped[1][1].price.den > 0)
    /\ fallback = "price" => scrape_pc \in {"demo_page", "sleep", "returned"}

\* the second price selector captured a text that parses to 0 and the
\* extraction went on with the third
C17_Witness ==
    /\ scrape_pc = "price"
    /\ selector = 3
    /\ probe.kind = "text"
    /\ _extract_price(probe.value) # <<>>
    /\ _extract_price(probe.value)[1].num = 0
    /\ locals.price = <<>>

\* the answer to a name probe is a name: a text that is not empty once
\* stripped (line 288)
NameMatches(a) == a.kind = "text" /\ Len(Strip(a.value)) > 0

\* C18: _extract_product_name raises nothing and always gives a name: a
\* probe that does not match (no element, empty or whitespace text, an
\* exception) moves to the next selector, after the last selector the name
\* is "Unknown Product", and the scrape goes on with the price; the record
\* of a live scrape has a non-empty name.
C18_NameFallback ==
    /\ [](ReturnedLive => scraped[1][1].name # <<>>)
    /\ [][scrape_pc = "name" =>
              (/\ fallback' = fallback
               /\ scraped' = <<>>
               /\ IF NameMatches(probe')
                  THEN /\ scrape_pc' = "price"
                       /\ locals'.product_name = <<Truncate(Strip(probe'.value), 100)>>
                  ELSE IF selector < NameSelectors
                  THEN /\ scrape_pc' = "name"
                       /\ selector' = selector + 1
                       /\ locals'.product_name = <<>>
                  ELSE /\ scrape_pc' = "price"
                       /\ locals'.product_name = <<UnknownProduct>>)]_vars

\* a live scrape returned a record named "Unknown Product"
C18_Witness ==
    /\ ReturnedLive
    /\ scraped[1][1].name = UnknownProduct
    /\ scraped[1][1].price.num > 0

\* the example of the specification: two reviews
ExampleReviews ==
    <<<<"T", "h", "i", "s", " ", "i", "s", " ", "g", "r", "e", "a", "t", " ", "a", "n", "d", " ", "e", "x", "c", "e", "l", "l", "e", "n", "t">>,
      <<"T", "h", "i", "s", " ", "i", "s", " ", "t", "e", "r", "r", "i", "b", "l", "e", " ", "a", "n", "d", " ", "b", "a", "d">>>>

\* the sum of the scores of reviews[1..n], over a common denominator
RECURSIVE ScoreTotal(_, _)
ScoreTotal(reviews, n) ==
    IF n = 0 THEN Fraction(0, 1)
    ELSE FracAdd(ScoreTotal(reviews, n - 1), _estimate_sentiment(reviews[n]))

\* C21: the aggregate sentiment of a list of reviews is the arithmetic mean
\* of the scores of its reviews (len(reviews) times the aggregate is their
\* sum), and 0.0 for the empty list; the two reviews of the example score
\* 1.0 and -1.0 and their aggregate is 0.0.
C21_AggregateIsMean ==
    (fn_output # <<>> /\ fn_input.fn = "_calculate_sentiment_from_reviews") =>
        LET reviews == fn_input.arg
            total   == ScoreTotal(reviews, Len(reviews))
            out     == fn_output[1]
        IN  /\ out.den > 0
            /\ reviews = <<>> => out.num = 0
            /\ FracEq(Fraction(out.num * Len(reviews), out.den), total)
            /\ reviews = ExampleReviews =>
                   /\ FracEq(_estimate_sentiment(reviews[1]), Fraction(1, 1))
                   /\ FracEq(_estimate_sentiment(reviews[2]), Fraction(-1, 1))
                   /\ out.num = 0

\* the aggregate of three reviews of scores 1.0, 1.0 and -1.0 is one third
C21_Witness ==
    /\ fn_input.fn = "_calculate_sentiment_from_reviews"
    /\ Len(fn_input.arg) = 3
    /\ fn_output # <<>>
    /\ FracEq(fn_output[1], Fraction(1, 3))

\* s[k..e] is a decimal number: digits, then at most one point, then digits
DecimalNumber(s, k, e) ==
    /\ k <= e
    /\ s[k] \in Digits
    /\ \A j \in k..e : s[j] \in Digits \cup {"."}
    /\ \A i, j \in k..e : (s[i] = "." /\ s[j] = ".") => i = j

\* s[k..e] is the first decimal number of s, as long as it can be
FirstNumber(s, k, e) ==
    /\ DecimalNumber(s, k, e)
    /\ \A j \in 1..(k - 1) : s[j] \notin Digits
    /\ e < Len(s) => ~DecimalNumber(s, k, e + 1)

\* the value of the decimal number s[k..e] is num / 10^places: the digits
\* read from the left, places counting those after the point
RECURSIVE NumeralValue(_, _, _, _, _)
NumeralValue(s, k, e, num, places) ==
    IF k > e THEN Fraction(num, Pow10(IF places < 0 THEN 0 ELSE places))
    ELSE IF s[k] = "." THEN NumeralValue(s, k + 1, e, num, 0)
    ELSE NumeralValue(s, k + 1, e, 10 * num + DigitValue(s[k]),
                      IF places < 0 THEN places ELSE places + 1)

\* C22: _extract_price removes the commas of the text and returns the value
\* of the first decimal number of what is left (the first match wins), and
\* no price when the text has no digit; "$79.99 (was $99.99)" gives 79.99
\* and "1,299.00" gives 1299.00.
C22_FirstNumberWins ==
    (fn_output # <<>> /\ fn_input.fn = "_extract_price") =>
        LET s     == SelectSeq(fn_input.arg, LAMBDA c : c # ",")
            price == fn_output[1]
        IN  /\ (price = <<>>) <=> (\A j \in 1..Len(s) : s[j] \notin Digits)
            /\ price # <<>> =>
                   \E k, e \in 1..Len(s) :
                       /\ FirstNumber(s, k, e)
                       /\ price[1].den > 0
                       /\ FracEq(price[1], NumeralValue(s, k, e, 0, -1))
            /\ fn_input.arg = <<"$", "7", "9", ".", "9", "9", " ", "(", "w", "a", "s", " ", "$", "9", "9", ".", "9", "9", ")">>
                   => FracEq(price[1], Fraction(7999, 100))
            /\ fn_input.arg = <<"1", ",", "2", "9", "9", ".", "0", "0">>
                   => FracEq(price[1], Fraction(1299, 1))

\* the price of "1,299.00" is 1299
C22_Witness ==
    /\ fn_input.fn = "_extract_price"
    /\ fn_input.arg = <<"1", ",", "2", "9", "9", ".", "0", "0">>
    /\ fn_output # <<>>
    /\ fn_output[1] # <<>>
    /\ FracEq(fn_output[1][1], Fraction(1299, 1))

\* C23: the record returned by a live scrape carries source_url and
\* sentiment_source_url, both equal to the URL scraped (so that the
\* validator attempts its sentiment sub-flow).
C23_LiveRecordHasBothUrls ==
    ReturnedLive =>
        /\ {"source_url", "sentiment_source_url"} \subseteq DOMAIN scraped[1][1]
        /\ scraped[1][1]["source_url"] = target
        /\ scraped[1][1]["sentiment_source_url"] = target

\* the thought log of request v
LogOf(v) == lists[validators[v].thoughts]

\* C24: two batches processed concurrently by two validators share no
\* mutable state: at every point of every interleaving, the thought log, the
\* accumulator and the returned result of each request are those of the same
\* call run alone against the same answers of the backend, and the log of a
\* request holds no thought about a product of the other request.
C24_ConcurrentBatchesIndependent ==
    validators # <<>> =>
        \A v \in Validators :
            /\ LogOf(v) = alone[v].thoughts
            /\ validators[v].frame.results = alone[v].results
            /\ validators[v].frame.returned = alone[v].returned
            /\ validators[v].frame.calls = alone[v].calls
            /\ \A w \in Validators \ {v} :
                   \A k \in 1..Len(LogOf(v)) :
                       LogOf(v)[k].thought # <<"Processing product", RequestName(w)>>

\* the first request is suspended on the POST of its product, with a
\* thought in its log, and the second has meanwhile run to its end and
\* returned a result with a price added
C24_Witness ==
    /\ validators # <<>>
    /\ validators[1].frame.pc = "await_create"
    /\ Len(LogOf(1)) = 1
    /\ validators[2].frame.pc = "done"
    /\ validators[2].frame.returned # <<>>
    /\ validators[2].frame.returned[1].prices_added = 1
    /\ Len(LogOf(2)) >= 3

\* the answer to a price probe is a price: a text that parses to a number
\* greater than 0
PriceMatches(a) ==
    /\ a.kind = "text"
    /\ _extract_price(a.value) # <<>>
    /\ _extract_price(a.value)[1].num > 0

\* C25: the price selectors are tried in their order, starting with the
\* first; the first one whose text parses to a positive price gives the
\* price and no selector is tried after it; a selector with no element, an
\* exception or a text that parses to no positive price is skipped for the
\* next one; the full-page scan starts only after the last selector failed.
C25_PriceStrategiesInOrder ==
    /\ [][(scrape_pc # "price" /\ scrape_pc' = "price") => selector' = 1]_vars
    /\ [][scrape_pc = "price" =>
              IF PriceMatches(probe')
              THEN /\ scrape_pc' = "reviews"
                   /\ locals'.price = _extract_price(probe'.value)
              ELSE /\ locals'.price = <<>>
                   /\ IF selector < PriceSelectors
                      THEN scrape_pc' = "price" /\ selector' = selector + 1
                      ELSE scrape_pc' = "content"]_vars
    /\ [][(scrape_pc # "content" /\ scrape_pc' = "content") =>
              /\ scrape_pc = "price"
              /\ selector = PriceSelectors
              /\ ~PriceMatches(probe')]_vars

\* the nine selectors failed, the last with an exception, and the full-page
\* scan is about to run
C25_Witness ==
    /\ scrape_pc = "content"
    /\ probe.kind = "raises"
    /\ locals.price = <<>>
    /\ locals.product_name # <<>>

\* C26: review extraction does not merge strategies: once a selector has
\* given a retained review no other selector is queried, also when a probe
\* of that selector raises afterwards; so whenever the query of a review
\* selector is awaited, no review has been retained yet.
C26_ReviewsFromOneStrategy ==
    (scrape_pc = "reviews" /\ locals # <<>>) => locals.reviews = <<>>

\* C27: review extraction discards exactly the blocks whose stripped text
\* is shorter than 20 characters: when inner_text answers with a text, the
\* reviews afterwards (those collected, or those returned when the
\* extraction ends with this block) are the reviews so far with the block
\* added if its stripped text has 20 characters or more, and unchanged if
\* it has 19 or fewer.
C27_TwentyCharactersRetained ==
    [][(scrape_pc = "review_text" /\ probe'.kind = "text") =>
          LET text   == Strip(probe'.value)
              after  == IF scrape_pc' = "returned"
                        THEN scraped'[1][1].raw_reviews ELSE locals'.reviews
          IN  IF Len(text) >= 20
              THEN /\ Len(after) = Len(locals.reviews) + 1
                   /\ after[Len(after)] = Truncate(text, 500)
              ELSE after = locals.reviews]_vars

\* the reviews the extraction holds: those returned once the live scrape is
\* over, those collected while it runs
ReviewsHeld ==
    IF ReturnedLive THEN scraped[1][1].raw_reviews
    ELSE IF locals # <<>> THEN locals.reviews ELSE <<>>

\* the sizes of what the extraction holds and of what it returned
SizeBounded ==
    /\ Len(ReviewsHeld) <= 3
    /\ \A k \in 1..Len(ReviewsHeld) : Len(ReviewsHeld[k]) <= 500
    /\ (ReturnedLive =>
           /\ Len(scraped[1][1].sentiment_text) <= 200
           /\ (scraped[1][1].raw_reviews # <<>> =>
                  scraped[1][1].sentiment_text
                      = SubSeq(scraped[1][1].raw_reviews[1], 1,
                               Len(scraped[1][1].sentiment_text))))
    /\ (scrape_pc \in {"reviews", "review_text"} => Len(ReviewsHeld) < 3)

HttpPrefixed(t) ==
    \E p \in {<<"h", "t", "t", "p", ":", "/", "/">>,
               <<"h", "t", "t", "p", "s", ":", "/", "/">>} :
        Len(t) >= Len(p) /\ SubSeq(t, 1, Len(p)) = p

\* where the call is while scrape_live_site runs
LivePositions ==
    {"live_page", "goto", "name", "price", "content", "reviews", "review_text"}

\* a record of the demo pool, with the URLs stamped on it
DemoRecord(r) ==
    /\ "sentiment_source_url" \in DOMAIN r
    /\ "raw_reviews" \notin DOMAIN r
    /\ \E k \in 1..Len(product_pool) : r.name = product_pool[k].name

\* a record assembled by scrape_live_site for the target
LiveRecord(r) ==
    /\ "raw_reviews" \in DOMAIN r
    /\ r.category = "Unknown"
    /\ r.source_url = target

\* C29: the mode is decided by the prefix of the target and the modes
\* exclude each other: for a target that does not start with http:// or
\* https:// the live scrape never runs (no page of scrape_live_site, no
\* navigation) and the call returns demo records; for a URL whose live
\* extraction succeeds it returns exactly one live record; a returned list
\* holds demo records only or live records only.
C29_ModesExclusive ==
    /\ ~HttpPrefixed(target) =>
           /\ scrape_pc \notin LivePositions
           /\ \A k \in 1..Len(pages) : pages[k].by = "scrape_demo_data"
           /\ scrape_pc = "returned" =>
                  /\ Len(scraped[1]) >= 1
                  /\ \A k \in 1..Len(scraped[1]) : DemoRecord(scraped[1][k])
    /\ (scrape_pc = "returned" /\ HttpPrefixed(target) /\ fallback = "") =>
           /\ Len(scraped[1]) = 1
           /\ LiveRecord(scraped[1][1])
    /\ scrape_pc = "returned" =>
           \/ \A k \in 1..Len(scraped[1]) : DemoRecord(scraped[1][k])
           \/ \A k \in 1..Len(scraped[1]) : LiveRecord(scraped[1][k])

\* the call for a target of another scheme returned demo records, having
\* opened one page, in scrape_demo_data
C29_Witness ==
    /\ scrape_pc = "returned"
    /\ target = <<"f", "t", "p", ":", "/", "/", "a">>
    /\ Len(scraped[1]) >= 3
    /\ Len(pages) = 1
    /\ pages[1].by = "scrape_demo_data"

\* the counters of an accumulator are ordered, for n items visited
CountersOrdered(res, n) ==
    /\ 0 <= res.prices_added
    /\ res.prices_added <= res.products_created
    /\ 0 <= res.sentiments_added
    /\ res.sentiments_added <= res.products_created
    /\ res.products_created <= n

\* C30: at every point of a batch and in the returned result, 0 <=
\* prices_added <= products_created <= the number of items visited so far
\* and 0 <= sentiments_added <= products_created; the three counters never
\* decrease and the errors list grows only by appending.
C30_CountersOrdered ==
    /\ [](/\ CountersOrdered(results, idx)
          /\ (returned # <<>> => CountersOrdered(returned[1], idx)))
    /\ [][/\ results'.products_created >= results.products_created
          /\ results'.prices_added >= results.prices_added
          /\ results'.sentiments_added >= results.sentiments_added
          /\ Len(results'.errors) >= Len(results.errors)
          /\ SubSeq(results'.errors, 1, Len(results.errors)) = results.errors]_vars

\* a batch of two items returned with two products, one price, two
\* sentiments and one error
C30_Witness ==
    /\ returned # <<>>
    /\ Len(batch) = 2
    /\ returned[1].products_created = 2
    /\ returned[1].prices_added = 1
    /\ returned[1].sentiments_added = 2
    /\ Len(returned[1].errors) = 1

\* the thoughts logged for item i, in the order of the log
ThoughtsAt(i) == {t \in 1..Len(thoughts) : thoughts[t].item = i}

\* C31: the errors list and the thought log stay in step: whenever the call
\* is suspended or has returned, the thoughts with status error are as many
\* as the errors; the thought logged next after a message was appended to
\* errors has status error and is about the same item; and an item whose
\* product-creation call was issued has thoughts, the first of them with
\* status running.
C31_ErrorsAndThoughtsInStep ==
    /\ Cardinality({t \in 1..Len(thoughts) : thoughts[t].status = "error"})
           = Len(results.errors)
    /\ \A e \in 1..Len(results.errors) :
           LET next == results.errors[e].at + 1
           IN  /\ next <= Len(thoughts)
               /\ thoughts[next].status = "error"
               /\ thoughts[next].item = results.errors[e].item
    /\ \A i \in 1..Len(batch) :
           CallsOf("products", i) # {} =>
               /\ ThoughtsAt(i) # {}
               /\ \A t \in ThoughtsAt(i) :
                      (\A u \in ThoughtsAt(i) : t <= u) =>
                          thoughts[t].status = "running"

\* the pages that are open
OpenPages == {p \in 1..Len(pages) : pages[p].open}

\* the points of a call at which the page it opened is in use
PageInUse ==
    scrape_pc \in {"goto", "name", "price", "content", "reviews", "review_text",
                   "sleep"}

\* C32: every page opened by scrape_live_site or by the demo branch of
\* scrape_demo_data is closed on every exit of the call: over any sequence
\* of scrape calls a page is open only while the call that opened it is
\* between opening it and leaving its try, so no page is open when a call
\* has returned or raised, when the next call starts, or when the demo
\* branch starts after scrape_live_site failed.
C32_PagesClosedOnEveryExit ==
    /\ OpenPages \subseteq {Len(pages)}
    /\ OpenPages # {} => PageInUse
    /\ scrape_pc = "sleep" => pages[Len(pages)].by = "scrape_demo_data"
    /\ (PageInUse /\ scrape_pc # "sleep") =>
           pages[Len(pages)].by = "scrape_live_site"

\* a call whose live scrape failed at the price raised in its demo branch:
\* the page of scrape_live_site and the page of the demo branch are closed
C32_Witness ==
    /\ scrape_pc = "raised"
    /\ Len(pages) = 2
    /\ pages[1].by = "scrape_live_site"
    /\ pages[2].by = "scrape_demo_data"
    /\ fallback = "price"
    /\ OpenPages = {}

====
